---------------------------- MODULE Spec2Model ----------------------------
(***************************************************************************)
(* A model of the failure-analysis engine of API_log_Monitoring,           *)
(* src/root_cause_analyzer.py (class APIRootCauseAnalyzer).                *)
(*                                                                         *)
(* The state is the log file the analyzer reads, its configuration, the    *)
(* window (DataFrame) it has loaded and the value its last call returned.  *)
(* Each analyzer is one action; its result is computed by an operator      *)
(* translated from the method's code.  Spec is generate_failure_report on  *)
(* a log of calls; SpecClassify, SpecCluster, SpecSequence, SpecPeriodic   *)
(* and SpecDependency each run one analyzer on windows chosen for it.      *)
(*                                                                         *)
(* Representation.                                                         *)
(*   - a timestamp is a number of seconds;                                 *)
(*   - a Python float is an IEEE-754 double, kept as its exponent and its  *)
(*     52 fraction bits, with round-to-nearest-even division and           *)
(*     multiplication (the comparisons of rates in the code are            *)
(*     comparisons of doubles);                                            *)
(*   - a string is the sequence of its characters;                         *)
(*   - a dict is a function, with the sequence of its keys in insertion    *)
(*     order beside it where the code reads that order.                    *)
(***************************************************************************)
EXTENDS Integers, Sequences, FiniteSets, TLC

VARIABLES
    log_file,         \* the lines of self.log_file, oldest first
    error_threshold,  \* self.error_threshold, as the decimal literal num/den
    df,               \* the window the last call worked on
    pc,               \* "idle", or the name of the method that has returned
    result,           \* the value that method returned
    report_file       \* the reports saved as api_failure_analysis_*.json

vars == <<log_file, error_threshold, df, pc, result, report_file>>

----------------------------------------------------------------------------
(* IEEE-754 doubles                                                        *)
(*                                                                         *)
(* A double > 0 is 2^exp * (1 + m1/2^18 + m2/2^36 + m3/2^52): the 52       *)
(* fraction bits are kept as the three limbs mant = <<m1, m2, m3>> of 18,  *)
(* 18 and 16 bits, so that every intermediate value fits a 32-bit integer. *)

Limb == 2^18
LowLimb == 2^16

\* The double 0.0.
FZero == [exp |-> 0, mant |-> <<>>]

IsFZero(x) == x.mant = <<>>

RECURSIVE Norm(_, _, _)
\* <<a', b', e>> with a/b = (a'/b') * 2^e and 1 <= a'/b' < 2.
Norm(a, b, e) ==
    IF a >= 2 * b THEN Norm(a, 2 * b, e + 1)
    ELSE IF a < b THEN Norm(2 * a, b, e - 1)
    ELSE <<a, b, e>>

\* The fraction limbs m (m3 still carrying `extra` bits below the last
\* fraction bit, sticky saying that non-zero bits follow them) rounded to
\* the nearest double, ties to even.
RoundLimbs(m1, m2, m3x, extra, sticky, e) ==
    LET m3    == m3x \div (2^extra)
        drop  == m3x % (2^extra)
        half  == IF extra = 0 THEN 1 ELSE 2^(extra - 1)
        guard == extra > 0 /\ drop >= half
        tail  == sticky \/ (extra > 0 /\ drop % half # 0)
        up    == guard /\ (tail \/ m3 % 2 = 1)
        n3    == IF up THEN m3 + 1 ELSE m3
        n2    == IF n3 = LowLimb THEN m2 + 1 ELSE m2
        n1    == IF n2 = Limb THEN m1 + 1 ELSE m1
    IN IF n1 = Limb
       THEN [exp |-> e + 1, mant |-> <<0, 0, 0>>]
       ELSE [exp |-> e, mant |-> <<n1, n2 % Limb, n3 % LowLimb>>]

\* <<(r * 2^18) \div b, (r * 2^18) % b>> for 0 <= r < b < 2^22, by long
\* division in two steps of 9 bits.
Shift18(r, b) ==
    LET h  == (r * 512) \div b
        rh == (r * 512) % b
        l  == (rh * 512) \div b
        rl == (rh * 512) % b
    IN <<h * 512 + l, rl>>

\* a / b of two integers (0 <= a < 2^21, 0 < b < 2^21) as Python computes
\* it: the double nearest to the quotient.
FDiv(a, b) ==
    IF a = 0 THEN FZero
    ELSE LET n  == Norm(a, b, 0)
             s1 == Shift18(n[1] - n[2], n[2])
             s2 == Shift18(s1[2], n[2])
             s3 == Shift18(s2[2], n[2])
         IN RoundLimbs(s1[1], s2[1], s3[1], 2, s3[2] # 0, n[3])

RECURSIVE Log2(_)
\* The position of the leading bit of k > 0.
Log2(k) == IF k = 1 THEN 0 ELSE 1 + Log2(k \div 2)

\* x * (k / 2^s) for a double x and the double k / 2^s (0 < k < 2^7),
\* rounded to the nearest double: avg_error_rate * 1.5 is FMulK(avg, 3, 1).
FMulK(x, k, s) ==
    IF IsFZero(x) THEN FZero
    ELSE LET p3  == x.mant[3] * k
             p2  == x.mant[2] * k + p3 \div LowLimb
             p1  == x.mant[1] * k + p2 \div Limb
             top == k + p1 \div Limb
             t   == Log2(top)
             l1  == p1 % Limb
             l2  == p2 % Limb
             l3  == p3 % LowLimb
             \* the product shifted right by t bits, the t bits kept in q3
             q1  == (top % (2^t)) * (2^(18 - t)) + l1 \div (2^t)
             q2  == (l1 % (2^t)) * (2^(18 - t)) + l2 \div (2^t)
             q3  == (l2 % (2^t)) * LowLimb + l3
         IN RoundLimbs(q1, q2, q3, t, FALSE, x.exp - s + t)

\* -x for a double x > 0: the sign bit is set.
FNeg(x) == [exp |-> x.exp, mant |-> x.mant, negative |-> TRUE]

IsNegative(x) == "negative" \in DOMAIN x

\* x < y for two doubles >= 0.
FLessMagnitude(x, y) ==
    IF IsFZero(y) THEN FALSE
    ELSE IF IsFZero(x) THEN TRUE
    ELSE IF x.exp # y.exp THEN x.exp < y.exp
    ELSE IF x.mant[1] # y.mant[1] THEN x.mant[1] < y.mant[1]
    ELSE IF x.mant[2] # y.mant[2] THEN x.mant[2] < y.mant[2]
    ELSE x.mant[3] < y.mant[3]

\* x < y for two doubles.
FLess(x, y) ==
    IF IsNegative(x) /\ IsNegative(y) THEN FLessMagnitude(y, x)
    ELSE IF IsNegative(x) THEN TRUE
    ELSE IF IsNegative(y) THEN FALSE
    ELSE FLessMagnitude(x, y)

\* The double of the decimal literal (-)num/den.
FloatOf(literal) ==
    IF literal.num < 0 THEN FNeg(FDiv(-literal.num, literal.den))
    ELSE FDiv(literal.num, literal.den)

----------------------------------------------------------------------------
(* Strings                                                                 *)

UpperChars == <<"A", "B", "C", "D", "E", "F", "G", "H", "I", "J", "K", "L", "M",
                "N", "O", "P", "Q", "R", "S", "T", "U", "V", "W", "X", "Y", "Z">>
LowerChars == <<"a", "b", "c", "d", "e", "f", "g", "h", "i", "j", "k", "l", "m",
                "n", "o", "p", "q", "r", "s", "t", "u", "v", "w", "x", "y", "z">>

\* The elements of a sequence.
Seq2Set(s) == {s[i] : i \in 1..Len(s)}

\* str.lower()
Lower(s) ==
    [i \in 1..Len(s) |->
        IF \E j \in 1..26 : UpperChars[j] = s[i]
        THEN LowerChars[CHOOSE j \in 1..26 : UpperChars[j] = s[i]]
        ELSE s[i]]

\* keyword in s
IsSubstring(keyword, s) ==
    \E i \in 0..(Len(s) - Len(keyword)) :
        \A j \in 1..Len(keyword) : s[i + j] = keyword[j]

\* The decimal digits of n >= 0.
Digits == <<"0", "1", "2", "3", "4", "5", "6", "7", "8", "9">>
RECURSIVE IntToStr(_)
IntToStr(n) ==
    IF n < 10 THEN <<Digits[n + 1]>>
    ELSE Append(IntToStr(n \div 10), Digits[(n % 10) + 1])

\* str(v) of a JSON value: a string is itself, a number its decimal digits
\* and an object {key: value} with a string value its repr,
\* {'key': 'value'}.
Str(v) ==
    IF v.type = "str" THEN v.str
    ELSE IF v.type = "int" THEN IntToStr(v.int)
    ELSE <<"{", "'">> \o v.key \o <<"'", ":", " ", "'">> \o v.value \o <<"'", "}">>

----------------------------------------------------------------------------
(* self.error_patterns: the categories in the order of the dict literal,   *)
(* each with its keywords.                                                 *)

kw_auth_failure ==
    << <<"u", "n", "a", "u", "t", "h", "o", "r", "i", "z", "e", "d">>,  \* unauthorized
       <<"f", "o", "r", "b", "i", "d", "d", "e", "n">>,  \* forbidden
       <<"a", "u", "t", "h", " ", "f", "a", "i", "l">>,  \* auth fail
       <<"n", "o", "t", " ", "a", "u", "t", "h", "e", "n", "t", "i", "c", "a", "t", "e", "d">>,  \* not authenticated
       <<"i", "n", "v", "a", "l", "i", "d", " ", "t", "o", "k", "e", "n">>,  \* invalid token
       <<"t", "o", "k", "e", "n", " ", "e", "x", "p", "i", "r", "e", "d">> >>  \* token expired

kw_rate_limit ==
    << <<"r", "a", "t", "e", " ", "l", "i", "m", "i", "t">>,  \* rate limit
       <<"t", "o", "o", " ", "m", "a", "n", "y", " ", "r", "e", "q", "u", "e", "s", "t", "s">>,  \* too many requests
       <<"r", "e", "q", "u", "e", "s", "t", " ", "q", "u", "o", "t", "a">>,  \* request quota
       <<"t", "h", "r", "o", "t", "t", "l", "e", "d">> >>  \* throttled

kw_invalid_input ==
    << <<"i", "n", "v", "a", "l", "i", "d", " ", "i", "n", "p", "u", "t">>,  \* invalid input
       <<"i", "n", "v", "a", "l", "i", "d", " ", "p", "a", "r", "a", "m", "e", "t", "e", "r">>,  \* invalid parameter
       <<"v", "a", "l", "i", "d", "a", "t", "i", "o", "n", " ", "e", "r", "r", "o", "r">>,  \* validation error
       <<"b", "a", "d", " ", "r", "e", "q", "u", "e", "s", "t">>,  \* bad request
       <<"m", "a", "l", "f", "o", "r", "m", "e", "d">> >>  \* malformed

kw_timeout ==
    << <<"t", "i", "m", "e", "o", "u", "t">>,  \* timeout
       <<"t", "i", "m", "e", "d", " ", "o", "u", "t">>,  \* timed out
       <<"d", "e", "a", "d", "l", "i", "n", "e", " ", "e", "x", "c", "e", "e", "d", "e", "d">>,  \* deadline exceeded
       <<"c", "o", "n", "n", "e", "c", "t", "i", "o", "n", " ", "t", "i", "m", "e", "o", "u", "t">> >>  \* connection timeout

kw_resource_unavailable ==
    << <<"n", "o", "t", " ", "f", "o", "u", "n", "d">>,  \* not found
       <<"n", "o", " ", "s", "u", "c", "h", " ", "r", "e", "s", "o", "u", "r", "c", "e">>,  \* no such resource
       <<"r", "e", "s", "o", "u", "r", "c", "e", " ", "u", "n", "a", "v", "a", "i", "l", "a", "b", "l", "e">>,  \* resource unavailable
       <<"d", "o", "e", "s", " ", "n", "o", "t", " ", "e", "x", "i", "s", "t">> >>  \* does not exist

kw_server_error ==
    << <<"i", "n", "t", "e", "r", "n", "a", "l", " ", "s", "e", "r", "v", "e", "r", " ", "e", "r", "r", "o", "r">>,  \* internal server error
       <<"s", "e", "r", "v", "i", "c", "e", " ", "u", "n", "a", "v", "a", "i", "l", "a", "b", "l", "e">>,  \* service unavailable
       <<"i", "n", "t", "e", "r", "n", "a", "l", " ", "e", "r", "r", "o", "r">>,  \* internal error
       <<"s", "e", "r", "v", "e", "r", " ", "e", "r", "r", "o", "r">> >>  \* server error

kw_dependency_failure ==
    << <<"d", "e", "p", "e", "n", "d", "e", "n", "c", "y", " ", "f", "a", "i", "l", "e", "d">>,  \* dependency failed
       <<"u", "p", "s", "t", "r", "e", "a", "m", " ", "s", "e", "r", "v", "i", "c", "e">>,  \* upstream service
       <<"d", "o", "w", "n", "s", "t", "r", "e", "a", "m", " ", "s", "e", "r", "v", "i", "c", "e">>,  \* downstream service
       <<"s", "e", "r", "v", "i", "c", "e", " ", "d", "e", "p", "e", "n", "d", "e", "n", "c", "y">> >>  \* service dependency

kw_concurrency ==
    << <<"c", "o", "n", "f", "l", "i", "c", "t">>,  \* conflict
       <<"r", "a", "c", "e", " ", "c", "o", "n", "d", "i", "t", "i", "o", "n">>,  \* race condition
       <<"a", "l", "r", "e", "a", "d", "y", " ", "e", "x", "i", "s", "t", "s">>,  \* already exists
       <<"d", "u", "p", "l", "i", "c", "a", "t", "e">> >>  \* duplicate

\* error_patterns with the timeout entry moved to the front of the dict.
error_patterns_timeout_first ==
    << [name |-> "timeout", keywords |-> kw_timeout],
       [name |-> "auth_failure", keywords |-> kw_auth_failure],
       [name |-> "rate_limit", keywords |-> kw_rate_limit],
       [name |-> "invalid_input", keywords |-> kw_invalid_input],
       [name |-> "resource_unavailable", keywords |-> kw_resource_unavailable],
       [name |-> "server_error", keywords |-> kw_server_error],
       [name |-> "dependency_failure", keywords |-> kw_dependency_failure],
       [name |-> "concurrency", keywords |-> kw_concurrency] >>

error_patterns ==
    << [name |-> "auth_failure", keywords |-> kw_auth_failure],
       [name |-> "rate_limit", keywords |-> kw_rate_limit],
       [name |-> "invalid_input", keywords |-> kw_invalid_input],
       [name |-> "timeout", keywords |-> kw_timeout],
       [name |-> "resource_unavailable", keywords |-> kw_resource_unavailable],
       [name |-> "server_error", keywords |-> kw_server_error],
       [name |-> "dependency_failure", keywords |-> kw_dependency_failure],
       [name |-> "concurrency", keywords |-> kw_concurrency] >>

----------------------------------------------------------------------------
(* Log records and the log file                                            *)

\* One line of the log file that json.loads accepts: a request/response.
LogRecord(ts, client, endpoint, method, status, rt, body) ==
    [timestamp |-> ts, client_ip |-> client, endpoint |-> endpoint,
     method |-> method, status_code |-> status, response_time_ms |-> rt,
     response_body |-> body]

\* A response body {"error": <string>}.
ErrorBody(msg) ==
    [type |-> "dict", dict |-> [error |-> [type |-> "str", str |-> msg]]]

\* A response body {"status": "Received"}: a dict with no error field.
OkBody ==
    [type |-> "dict",
     dict |-> [status |-> [type |-> "str", str |-> <<"R", "e", "c", "e", "i", "v", "e", "d">>]]]

\* A line of the file: a record, or text that json.loads rejects.
JsonLine(r) == [json |-> TRUE, rec |-> r]

BadLine == [json |-> FALSE]

\* analysis_window_hours=24, the constructor's default.
analysis_window_hours == 24

\* datetime.now() at the time the log is loaded, in seconds.
Now == 259200

\* timedelta(hours=self.analysis_window_hours) before now.
cutoff_time == Now - analysis_window_hours * 3600

\* column in df.columns: the columns of a DataFrame built from a list of
\* dicts are the keys of the dicts.
HasColumn(d, column) == \E i \in 1..Len(d) : column \in DOMAIN d[i]

\* The test of the window with >= written for >.
NotBefore(timestamp, cutoff) == timestamp >= cutoff

\* df['timestamp'] > cutoff_time, for one row
IsAfter(timestamp, cutoff) == timestamp > cutoff

\* load_logs(): the parsed lines later than the cutoff, in file order; the
\* empty DataFrame when the file is empty, when a line is not JSON
\* (json.JSONDecodeError) or when no line has a timestamp (the KeyError of
\* df['timestamp'] is caught by `except Exception`).  A line without a
\* timestamp among lines that have one is a row whose timestamp is NaT: it
\* is not later than the cutoff.
load_logs(lines) ==
    IF lines = <<>> THEN <<>>
    ELSE IF \E i \in 1..Len(lines) : ~lines[i].json THEN <<>>
    ELSE LET logs == [i \in 1..Len(lines) |-> lines[i].rec]
             InWindow(r) == /\ "timestamp" \in DOMAIN r
                            /\ IsAfter(r.timestamp, cutoff_time)
         IN IF ~HasColumn(logs, "timestamp") THEN <<>>
            ELSE SelectSeq(logs, InWindow)

\* df[df['status_code'] >= 400]
IsError(r) == r.status_code >= 400

errors_of(d) == SelectSeq(d, IsError)

\* The empty dict {}.
EmptyDict == <<>>

----------------------------------------------------------------------------
(* identify_error_patterns                                                 *)

\* The error text of a row: str(response_body['error']).lower() when the
\* body is a dict with an error field, else ''.
error_message_of(row) ==
    IF row.response_body.type = "dict" /\ "error" \in DOMAIN row.response_body.dict
    THEN Lower(Str(row.response_body.dict.error))
    ELSE <<>>

\* any(keyword in error_message for keyword in keywords)
MatchesPattern(error_message, keywords) ==
    \E k \in 1..Len(keywords) : IsSubstring(keywords[k], error_message)

RECURSIVE MatchFrom(_, _)
\* The loop over self.error_patterns.items() from entry i on: the name of
\* the first pattern that matches (break), "unclassified" when none does.
MatchFrom(error_message, i) ==
    IF i > Len(error_patterns) THEN "unclassified"
    ELSE IF MatchesPattern(error_message, error_patterns[i].keywords)
         THEN error_patterns[i].name
         ELSE MatchFrom(error_message, i + 1)

matched_pattern(error_message) == MatchFrom(error_message, 1)

\* The entry appended to pattern_details[...] for a row.
PatternDetail(row) ==
    [timestamp |-> row.timestamp, endpoint |-> row.endpoint,
     method |-> row.method, status_code |-> row.status_code,
     message |-> error_message_of(row)]

RECURSIVE ClassifyRows(_, _, _)
\* The loop over errors_df.iterrows() from row i on. acc holds error_types
\* (a defaultdict(int): keys are added on first use, order is the order of
\* first use) and pattern_details (a defaultdict(list)).
ClassifyRows(errors_df, i, acc) ==
    IF i > Len(errors_df) THEN acc
    ELSE LET row  == errors_df[i]
             name == matched_pattern(error_message_of(row))
             seen == name \in DOMAIN acc.error_types
             types == [k \in DOMAIN acc.error_types \cup {name} |->
                         IF k = name
                         THEN (IF seen THEN acc.error_types[k] ELSE 0) + 1
                         ELSE acc.error_types[k]]
             details == [k \in DOMAIN acc.pattern_details \cup {name} |->
                           IF k = name
                           THEN Append(IF seen THEN acc.pattern_details[k] ELSE <<>>,
                                       PatternDetail(row))
                           ELSE acc.pattern_details[k]]
         IN ClassifyRows(errors_df, i + 1,
                [error_types |-> types,
                 type_order |-> IF seen THEN acc.type_order
                                ELSE Append(acc.type_order, name),
                 pattern_details |-> details])

identify_error_patterns(d) ==
    IF d = <<>> THEN EmptyDict
    ELSE LET errors_df == errors_of(d) IN
         IF errors_df = <<>>
         THEN [error_count |-> 0, error_rate |-> FZero, patterns |-> EmptyDict]
         ELSE LET total_requests == Len(d)
                  error_count == Len(errors_df)
                  acc == ClassifyRows(errors_df, 1,
                            [error_types |-> <<>>, type_order |-> <<>>,
                             pattern_details |-> <<>>])
              IN [error_count |-> error_count,
                  error_rate |-> FDiv(error_count, total_requests),
                  error_types |-> acc.error_types,
                  type_order |-> acc.type_order,
                  error_percentages |->
                      [k \in DOMAIN acc.error_types |->
                          FMulK(FDiv(acc.error_types[k], error_count), 100, 0)],
                  pattern_details |-> acc.pattern_details]

----------------------------------------------------------------------------
(* The initial state and the steps shared by every specification           *)

\* The analyzer as constructed with its defaults (error_threshold=0.2),
\* before the log has any line.
Init ==
    /\ log_file = <<>>
    /\ error_threshold = [num |-> 1, den |-> 5]
    /\ df = <<>>
    /\ pc = "idle"
    /\ result = EmptyDict
    /\ report_file = <<>>

\* The API server appends one line for record r to the log (app.py, emit).
AppendLine(r) ==
    /\ pc = "idle"
    /\ log_file' = Append(log_file, JsonLine(r))
    /\ UNCHANGED <<error_threshold, df, pc, result, report_file>>

----------------------------------------------------------------------------
(* SpecClassify: windows of classified records, identify_error_patterns    *)

MaxClassifyRecords == 3

msg_unauth_timeout == <<"U", "n", "a", "u", "t", "h", "o", "r", "i", "z", "e", "d", ":", " ", "t", "i", "m", "e", "o", "u", "t">>  \* Unauthorized: timeout
msg_timed_out == <<"R", "e", "q", "u", "e", "s", "t", " ", "t", "i", "m", "e", "d", " ", "o", "u", "t">>  \* Request timed out
msg_upstream == <<"u", "p", "s", "t", "r", "e", "a", "m", " ", "s", "e", "r", "v", "i", "c", "e", " ", "u", "n", "a", "v", "a", "i", "l", "a", "b", "l", "e">>  \* upstream service unavailable
msg_dup_not_found == <<"D", "u", "p", "l", "i", "c", "a", "t", "e", ":", " ", "N", "o", "t", " ", "F", "o", "u", "n", "d">>  \* Duplicate: Not Found
msg_quota == <<"q", "u", "o", "t", "a">>  \* quota

ClassifyMessages ==
    {msg_unauth_timeout, msg_timed_out, msg_upstream, msg_dup_not_found, msg_quota}

\* The records of SpecClassify: failing calls with each message, a failing
\* call whose body has no error field, and a successful call.
ClassifyRecords ==
    {LogRecord(Now - 60, "10.0.0.1", "/submit", "POST", 500, 100, ErrorBody(m)) :
        m \in ClassifyMessages}
    \cup {LogRecord(Now - 60, "10.0.0.1", "/submit", "POST", 400, 100, OkBody),
          LogRecord(Now - 60, "10.0.0.1", "/submit", "POST", 200, 100, OkBody)}

AppendClassify ==
    /\ Len(log_file) < MaxClassifyRecords
    /\ \E r \in ClassifyRecords : AppendLine(r)

\* identify_error_patterns(df) on the loaded window.
RunIdentifyErrorPatterns ==
    /\ pc = "idle"
    /\ df' = load_logs(log_file)
    /\ result' = identify_error_patterns(df')
    /\ pc' = "identify_error_patterns"
    /\ UNCHANGED <<log_file, error_threshold, report_file>>

NextClassify == AppendClassify \/ RunIdentifyErrorPatterns

SpecClassify == Init /\ [][NextClassify]_vars

\* The fixed taxonomy order of the categories.
TaxonomyOrder ==
    <<"auth_failure", "rate_limit", "invalid_input", "timeout",
      "resource_unavailable", "server_error", "dependency_failure", "concurrency">>

\* The keywords the analyzer holds for category c.
KeywordsOf(c) ==
    LET i == CHOOSE i \in 1..Len(error_patterns) : error_patterns[i].name = c
    IN error_patterns[i].keywords

\* Category c has a keyword that occurs in the text.
CategoryMatches(c, text) ==
    \E k \in 1..Len(KeywordsOf(c)) : IsSubstring(KeywordsOf(c)[k], text)

\* The category the taxonomy order gives a text: the first one that matches.
FirstInTaxonomy(text) ==
    IF \E i \in 1..Len(TaxonomyOrder) : CategoryMatches(TaxonomyOrder[i], text)
    THEN LET i == CHOOSE i \in 1..Len(TaxonomyOrder) :
                    /\ CategoryMatches(TaxonomyOrder[i], text)
                    /\ \A j \in 1..(i - 1) : ~CategoryMatches(TaxonomyOrder[j], text)
         IN TaxonomyOrder[i]
    ELSE "unclassified"

\* The lowercased error text of a failing record.
LowerErrorText(r) ==
    IF "error" \in DOMAIN r.response_body.dict
    THEN Lower(r.response_body.dict.error.str)
    ELSE <<>>

\* The failing records of the window whose text falls in category c.
FailingIn(c) ==
    LET InC(r) == IsError(r) /\ FirstInTaxonomy(LowerErrorText(r)) = c
    IN SelectSeq(df, InC)

\* C2: every failing record is assigned the category that comes first in the
\* fixed order auth_failure, rate_limit, invalid_input, timeout,
\* resource_unavailable, server_error, dependency_failure, concurrency among
\* those with a keyword in its lowercased message (unclassified when none
\* has), so the assignment is a function of the message alone; a message
\* with both "unauthorized" and "timeout" is auth_failure, never timeout.
C2_FirstMatchPriority ==
    (pc = "identify_error_patterns" /\ errors_of(df) # <<>>) =>
        /\ \A c \in DOMAIN result.pattern_details :
              /\ Len(result.pattern_details[c]) = Len(FailingIn(c))
              /\ result.error_types[c] = Len(FailingIn(c))
              /\ \A j \in 1..Len(result.pattern_details[c]) :
                    /\ result.pattern_details[c][j].message
                          = LowerErrorText(FailingIn(c)[j])
                    /\ result.pattern_details[c][j].status_code
                          = FailingIn(c)[j].status_code
        /\ \A c \in Seq2Set(TaxonomyOrder) \cup {"unclassified"} :
              FailingIn(c) # <<>> => c \in DOMAIN result.pattern_details
        /\ \A c \in DOMAIN result.pattern_details :
              \A j \in 1..Len(result.pattern_details[c]) :
                 LET m == result.pattern_details[c][j].message IN
                 (IsSubstring(kw_auth_failure[1], m) /\ IsSubstring(kw_timeout[1], m))
                    => c = "auth_failure"

\* A failing record whose message holds both "unauthorized" and "timeout"
\* has been classified.
C2_Witness ==
    /\ pc = "identify_error_patterns"
    /\ errors_of(df) # <<>>
    /\ "auth_failure" \in DOMAIN result.pattern_details
    /\ \E j \in 1..Len(result.pattern_details["auth_failure"]) :
          result.pattern_details["auth_failure"][j].message = Lower(msg_unauth_timeout)
    /\ "unclassified" \in DOMAIN result.pattern_details

----------------------------------------------------------------------------
(* analyze_dependency_correlation                                          *)

\* timestamp.dt.floor('T') rounded up to the next minute at :30, as
\* dt.round('T') would.
MinuteNearest(ts) == (ts + 30) \div 60

\* df['timestamp'].dt.floor('T'): the minute a timestamp falls in.
Minute(ts) == ts \div 60

\* set(df_with_minute[df_with_minute['status_code'] >= 400]['minute'])
error_minutes(d) ==
    {Minute(d[i].timestamp) : i \in {j \in 1..Len(d) : IsError(d[j])}}

\* set(minute_df[minute_df['status_code'] >= 400]['endpoint']) for
\* minute_df = df_with_minute[df_with_minute['minute'] == minute]
error_endpoints(d, minute) ==
    {d[i].endpoint :
        i \in {j \in 1..Len(d) : Minute(d[j].timestamp) = minute /\ IsError(d[j])}}

\* The pairs counted only in a minute in which exactly two endpoints fail.
co_occurrences_of_two(endpoints) ==
    IF Cardinality(endpoints) = 2
    THEN {p \in endpoints \X endpoints : p[1] # p[2]}
    ELSE {}

\* The pairs (endpoint1, endpoint2) the two nested loops over
\* error_endpoints increment: those with endpoint1 != endpoint2.
co_occurrences(endpoints) == {p \in endpoints \X endpoints : p[1] # p[2]}

RECURSIVE CorrelateMinutes(_, _, _)
\* The loop over error_minutes: endpoint_correlations (a defaultdict of
\* defaultdict(int)) after the minutes in `minutes` have been added to corr.
CorrelateMinutes(d, minutes, corr) ==
    IF minutes = {} THEN corr
    ELSE LET minute == CHOOSE m \in minutes : TRUE
             pairs  == co_occurrences(error_endpoints(d, minute))
             Old(e1) == IF e1 \in DOMAIN corr THEN DOMAIN corr[e1] ELSE {}
             New(e1) == {p[2] : p \in {q \in pairs : q[1] = e1}}
             next == [e1 \in DOMAIN corr \cup {p[1] : p \in pairs} |->
                        [e2 \in Old(e1) \cup New(e1) |->
                            (IF e2 \in Old(e1) THEN corr[e1][e2] ELSE 0)
                            + (IF <<e1, e2>> \in pairs THEN 1 ELSE 0)]]
         IN CorrelateMinutes(d, minutes \ {minute}, next)

\* if count >= 3, with > written for >=.
IsLikelyStrict(count) == count > 3

\* if count >= 3:  # Threshold for considering it a pattern
IsLikely(count) == count >= 3

\* likely_dependencies: the loop over endpoint_correlations.items() and
\* correlations.items(). The dicts are filled in the iteration order of
\* sets of strings, which differs from run to run (string hashes are
\* randomised): `order` is that order, a sequence of the endpoints.
LikelyDependencies(corr, order) ==
    LET n == Len(order)
        pairs == [k \in 1..(n * n) |->
                    <<order[((k - 1) \div n) + 1], order[((k - 1) % n) + 1]>>]
        Kept(p) == /\ p[1] \in DOMAIN corr
                   /\ p[2] \in DOMAIN corr[p[1]]
                   /\ IsLikely(corr[p[1]][p[2]])
        kept == SelectSeq(pairs, Kept)
    IN [k \in 1..Len(kept) |->
           [source_endpoint |-> kept[k][1],
            dependent_endpoint |-> kept[k][2],
            co_failure_count |-> corr[kept[k][1]][kept[k][2]]]]

analyze_dependency_correlation(d, order) ==
    IF d = <<>> THEN EmptyDict
    ELSE LET endpoint_correlations == CorrelateMinutes(d, error_minutes(d), <<>>)
         IN [endpoint_correlations |-> endpoint_correlations,
             likely_dependencies |->
                 LikelyDependencies(endpoint_correlations, order)]

\* The orders in which a set of strings can be iterated.
SetOrders(S) ==
    {o \in [1..Cardinality(S) -> S] : \A e \in S : \E k \in DOMAIN o : o[k] = e}

\* The endpoints of a window.
EndpointsOf(d) ==
    {d[i].endpoint : i \in {j \in 1..Len(d) : "endpoint" \in DOMAIN d[j]}}

\* d without its row i.
RemoveAt(d, i) == SubSeq(d, 1, i - 1) \o SubSeq(d, i + 1, Len(d))

----------------------------------------------------------------------------
(* SpecDependency: windows of calls to three endpoints over three minutes, *)
(* analyze_dependency_correlation                                          *)

MaxDependencyRecords == 6

DependencyEndpoints == <<"/submit", "/update", "/delete">>

\* Seconds after the cutoff: 65 and 119 fall in one minute, 130 and 185 in
\* the next two.
DependencyOffsets == <<65, 119, 130, 185>>

DependencyStatuses == <<200, 400>>

\* The records of SpecDependency, in chronological order: a failing call of
\* every endpoint at every offset, and a successful call of every endpoint
\* at the second offset.
DependencyRecordSeq ==
    LET all == [k \in 1..(Len(DependencyOffsets) * Len(DependencyEndpoints)
                            * Len(DependencyStatuses)) |->
                  LET t == (k - 1) \div (Len(DependencyEndpoints) * Len(DependencyStatuses))
                      e == ((k - 1) \div Len(DependencyStatuses)) % Len(DependencyEndpoints)
                      s == (k - 1) % Len(DependencyStatuses)
                  IN LogRecord(cutoff_time + DependencyOffsets[t + 1], "10.0.0.1",
                               DependencyEndpoints[e + 1], "GET",
                               DependencyStatuses[s + 1], 100, OkBody)]
        Logged(r) == \/ IsError(r)
                     \/ r.timestamp = cutoff_time + DependencyOffsets[2]
    IN SelectSeq(all, Logged)

\* The position of the last line's record in DependencyRecordSeq.
LastDependencyIndex ==
    IF log_file = <<>> THEN 0
    ELSE CHOOSE k \in DOMAIN DependencyRecordSeq :
            DependencyRecordSeq[k] = log_file[Len(log_file)].rec

\* The server logs the next call; calls are logged in chronological order.
AppendDependency ==
    /\ Len(log_file) < MaxDependencyRecords
    /\ \E k \in DOMAIN DependencyRecordSeq :
          /\ k > LastDependencyIndex
          /\ AppendLine(DependencyRecordSeq[k])

\* analyze_dependency_correlation(df) on the loaded window.
RunDependencyCorrelation ==
    /\ pc = "idle"
    /\ df' = load_logs(log_file)
    /\ \E order \in SetOrders(EndpointsOf(df')) :
          result' = analyze_dependency_correlation(df', order)
    /\ pc' = "analyze_dependency_correlation"
    /\ UNCHANGED <<log_file, error_threshold, report_file>>

\* analyze_dependency_correlation on the loaded window without one of its
\* failing records.
RunDependencyCorrelationWithout ==
    /\ pc = "idle"
    /\ \E i \in 1..Len(load_logs(log_file)) :
          /\ IsError(load_logs(log_file)[i])
          /\ df' = RemoveAt(load_logs(log_file), i)
    /\ \E order \in SetOrders(EndpointsOf(df')) :
          result' = analyze_dependency_correlation(df', order)
    /\ pc' = "analyze_dependency_correlation_without"
    /\ UNCHANGED <<log_file, error_threshold, report_file>>

NextDependency ==
    \/ AppendDependency
    \/ RunDependencyCorrelation
    \/ RunDependencyCorrelationWithout

SpecDependency == Init /\ [][NextDependency]_vars

\* Endpoint a has a record with status_code >= 400 in one-minute bucket m.
FailsIn(a, m) ==
    \E i \in 1..Len(df) :
        /\ df[i].endpoint = a
        /\ df[i].status_code >= 400
        /\ df[i].timestamp \div 60 = m

\* The one-minute buckets of the window.
BucketsOf(d) == {d[i].timestamp \div 60 : i \in 1..Len(d)}

\* The number of distinct buckets of window d in which a and b both fail.
CoFailures(d, a, b) ==
    Cardinality({m \in BucketsOf(d) :
        /\ \E i \in 1..Len(d) : /\ d[i].endpoint = a /\ d[i].status_code >= 400
                                /\ d[i].timestamp \div 60 = m
        /\ \E i \in 1..Len(d) : /\ d[i].endpoint = b /\ d[i].status_code >= 400
                                /\ d[i].timestamp \div 60 = m})

\* endpoint_correlations[a][b] of a result, 0 when the dict has no entry.
CorrelationOf(r, a, b) ==
    IF a \in DOMAIN r.endpoint_correlations
       /\ b \in DOMAIN r.endpoint_correlations[a]
    THEN r.endpoint_correlations[a][b]
    ELSE 0

\* The (source, dependent) pairs of the likely_dependencies of a result.
LikelyPairs(r) ==
    {<<r.likely_dependencies[k].source_endpoint,
       r.likely_dependencies[k].dependent_endpoint>> :
        k \in 1..Len(r.likely_dependencies)}

DependencyDone == pc = "analyze_dependency_correlation" /\ df # <<>>

C5_LikelyDependencyThreshold ==
    DependencyDone =>
        /\ \A a \in EndpointsOf(df), b \in EndpointsOf(df) :
              (<<a, b>> \in LikelyPairs(result))
                  <=> (a # b /\ CoFailures(df, a, b) >= 3)
        /\ \A k \in 1..Len(result.likely_dependencies) :
              LET dep == result.likely_dependencies[k] IN
              /\ dep.source_endpoint # dep.dependent_endpoint
              /\ dep.co_failure_count
                    = CoFailures(df, dep.source_endpoint, dep.dependent_endpoint)
              /\ \E j \in 1..Len(result.likely_dependencies) :
                    LET rev == result.likely_dependencies[j] IN
                    /\ rev.source_endpoint = dep.dependent_endpoint
                    /\ rev.dependent_endpoint = dep.source_endpoint
                    /\ rev.co_failure_count = dep.co_failure_count
        /\ \A j, k \in 1..Len(result.likely_dependencies) :
              (/\ result.likely_dependencies[j].source_endpoint
                    = result.likely_dependencies[k].source_endpoint
               /\ result.likely_dependencies[j].dependent_endpoint
                    = result.likely_dependencies[k].dependent_endpoint) => j = k

\* /submit and /update fail together in three distinct minutes and have their two
\* entries with count 3, and no other pair has an entry.
C5_Witness ==
    /\ DependencyDone
    /\ LikelyPairs(result) = {<<"/submit", "/update">>, <<"/update", "/submit">>}
    /\ result.likely_dependencies[1].co_failure_count = 3

\* C6: the analysis of a window without one of its failing records has no
\* co-failure count above that of the whole window and no LikelyDependency
\* entry the whole window lacks.
C6_RemovalMonotone ==
    (pc = "analyze_dependency_correlation_without") =>
        LET whole == load_logs(log_file)
            full  == analyze_dependency_correlation(whole,
                         CHOOSE o \in SetOrders(EndpointsOf(whole)) : TRUE)
        IN /\ Len(df) + 1 = Len(whole)
           /\ df = <<>> => DOMAIN result = {}
           /\ df # <<>> =>
                 /\ \A a \in EndpointsOf(whole), b \in EndpointsOf(whole) :
                       CorrelationOf(result, a, b) <= CorrelationOf(full, a, b)
                 /\ LikelyPairs(result) \subseteq LikelyPairs(full)

\* Removing one failing record lowered a count from 3 to 2 and took the
\* LikelyDependency entries of the pair away.
C6_Witness ==
    /\ pc = "analyze_dependency_correlation_without"
    /\ df # <<>>
    /\ CorrelationOf(result, "/submit", "/update") = 2
    /\ LikelyPairs(result) = {}
    /\ CoFailures(load_logs(log_file), "/submit", "/update") = 3

----------------------------------------------------------------------------
(* analyze_periodic_failures                                               *)

\* df['timestamp'].dt.hour: the hour of the day of a timestamp.
Hour(ts) == (ts \div 3600) % 24

\* groupby('hour').size() of the failing rows only.
hourly_count_of_errors(d, hour) ==
    Cardinality({i \in 1..Len(d) : IsError(d[i]) /\ Hour(d[i].timestamp) = hour})

\* d.groupby('hour').size()[hour], 0 when no row of d falls in the hour.
hourly_count(d, hour) ==
    Cardinality({i \in 1..Len(d) : Hour(d[i].timestamp) = hour})

\* hourly_error_rates[hour]
HourlyData(d, hour) ==
    IF hourly_count(d, hour) > 0
    THEN LET error_count   == hourly_count(errors_of(d), hour)
             request_count == hourly_count(d, hour)
         IN [error_count |-> error_count,
             request_count |-> request_count,
             error_rate |-> FDiv(error_count, request_count)]
    ELSE [error_count |-> 0, request_count |-> 0, error_rate |-> FZero]

\* The test of an elevated hour against the average itself, with >=.
IsProblematicFromAverage(data, avg_error_rate) ==
    /\ data.request_count > 0
    /\ ~FLess(data.error_rate, avg_error_rate)

\* data['request_count'] > 0 and data['error_rate'] > (avg_error_rate * 1.5)
IsProblematic(data, avg_error_rate) ==
    /\ data.request_count > 0
    /\ FLess(FMulK(avg_error_rate, 3, 1), data.error_rate)

analyze_periodic_failures(d) ==
    IF d = <<>> THEN EmptyDict
    ELSE IF errors_of(d) = <<>> THEN EmptyDict
    ELSE LET hourly_error_rates == [hour \in 0..23 |-> HourlyData(d, hour)]
             avg_error_rate == FDiv(Len(errors_of(d)), Len(d))
             flagged == {hour \in 0..23 :
                            IsProblematic(hourly_error_rates[hour], avg_error_rate)}
         IN [hourly_error_rates |-> hourly_error_rates,
             problematic_hours |-> [hour \in flagged |-> hourly_error_rates[hour]],
             avg_error_rate |-> avg_error_rate]

----------------------------------------------------------------------------
(* SpecPeriodic: windows of calls in two hours of the day,                 *)
(* analyze_periodic_failures                                               *)

MaxPeriodicRecords == 15

\* Seconds after the cutoff: 65 is in hour 0, 9 * 3600 + 30 in hour 9, and
\* 24 * 3600 (the time of loading) in hour 0 of the next day.
PeriodicOffsets == <<65, 9 * 3600 + 30, 24 * 3600>>

PeriodicStatuses == <<200, 400>>

\* The records of SpecPeriodic, in chronological order.
PeriodicRecordSeq ==
    [k \in 1..(Len(PeriodicOffsets) * Len(PeriodicStatuses)) |->
        LogRecord(cutoff_time + PeriodicOffsets[((k - 1) \div Len(PeriodicStatuses)) + 1],
                  "10.0.0.1", "/submit", "POST",
                  PeriodicStatuses[((k - 1) % Len(PeriodicStatuses)) + 1],
                  100, OkBody)]

\* The position of the last line's record in PeriodicRecordSeq.
LastPeriodicIndex ==
    IF log_file = <<>> THEN 1
    ELSE CHOOSE k \in DOMAIN PeriodicRecordSeq :
            PeriodicRecordSeq[k] = log_file[Len(log_file)].rec

\* The server logs the next call; calls are logged in chronological order.
AppendPeriodic ==
    /\ Len(log_file) < MaxPeriodicRecords
    /\ \E k \in DOMAIN PeriodicRecordSeq :
          /\ k >= LastPeriodicIndex
          /\ AppendLine(PeriodicRecordSeq[k])

\* analyze_periodic_failures(df) on the loaded window.
RunPeriodicFailures ==
    /\ pc = "idle"
    /\ df' = load_logs(log_file)
    /\ result' = analyze_periodic_failures(df')
    /\ pc' = "analyze_periodic_failures"
    /\ UNCHANGED <<log_file, error_threshold, report_file>>

NextPeriodic == AppendPeriodic \/ RunPeriodicFailures

SpecPeriodic == Init /\ [][NextPeriodic]_vars

RECURSIVE SumOver(_, _, _)
\* The sum of f[h][field] over the hours h of S.
SumOver(f, field, S) ==
    IF S = {} THEN 0
    ELSE LET h == CHOOSE x \in S : TRUE
         IN f[h][field] + SumOver(f, field, S \ {h})

\* The hourly table has been produced.
PeriodicTable ==
    /\ pc = "analyze_periodic_failures"
    /\ "hourly_error_rates" \in DOMAIN result

\* C7: in the hourly table the request_count values of the 24 hours sum to
\* the number of records of the window and the error_count values to the
\* number of records with status_code >= 400; each record is counted in the
\* bucket of its hour of the day and in no other.
C7_HourlySums ==
    PeriodicTable =>
        /\ DOMAIN result.hourly_error_rates = 0..23
        /\ SumOver(result.hourly_error_rates, "request_count", 0..23) = Len(df)
        /\ SumOver(result.hourly_error_rates, "error_count", 0..23)
              = Cardinality({i \in 1..Len(df) : df[i].status_code >= 400})
        /\ \A h \in 0..23 :
              /\ result.hourly_error_rates[h].request_count
                    = Cardinality({i \in 1..Len(df) :
                          (df[i].timestamp \div 3600) % 24 = h})
              /\ result.hourly_error_rates[h].error_count
                    = Cardinality({i \in 1..Len(df) :
                          /\ df[i].status_code >= 400
                          /\ (df[i].timestamp \div 3600) % 24 = h})

\* A table over a window with failing and successful records in hour 0 of
\* both days and in hour 9.
C7_Witness ==
    /\ PeriodicTable
    /\ result.hourly_error_rates[0].request_count = 3
    /\ result.hourly_error_rates[0].error_count = 1
    /\ result.hourly_error_rates[9].request_count = 2
    /\ result.hourly_error_rates[9].error_count = 1
    /\ df[Len(df)].timestamp = Now

\* C8: an hour is in problematic_hours iff its request_count is greater
\* than 0 and error_count / request_count is strictly greater than 1.5
\* times total errors / total requests (2 * error_count * requests >
\* 3 * errors * request_count); an hour at exactly 1.5 times the average is
\* not flagged.
C8_ProblematicIffAboveOneAndAHalf ==
    PeriodicTable =>
        LET errors == Cardinality({i \in 1..Len(df) : df[i].status_code >= 400})
        IN \A h \in 0..23 :
              LET data == result.hourly_error_rates[h] IN
              (h \in DOMAIN result.problematic_hours)
                 <=> (/\ data.request_count > 0
                      /\ 2 * data.error_count * Len(df)
                            > 3 * errors * data.request_count)

----------------------------------------------------------------------------
(* analyze_sequence_patterns                                               *)

\* f"{method} {endpoint}"
Call(row) == row.method \o " " \o row.endpoint

RECURSIVE SortedOrders(_, _)
\* The orders of the rows S of d by ascending timestamp.
SortedOrders(d, S) ==
    IF S = {} THEN {<<>>}
    ELSE LET first == {i \in S : \A j \in S : d[i].timestamp <= d[j].timestamp}
         IN UNION {{<<i>> \o rest : rest \in SortedOrders(d, S \ {i})} :
                   i \in first}

\* df.sort_values('timestamp'): the row orders the sort can return.  The
\* default kind is quicksort, which keeps no order among rows of equal
\* timestamp.
sort_values(d) == SortedOrders(d, 1..Len(d))

\* The known client addresses in the order of sorted().
ClientIps == <<"10.0.0.1", "10.0.0.2">>

\* df_sorted.groupby('client_ip'): the keys in sorted order.
GroupKeys(d) ==
    SelectSeq(ClientIps, LAMBDA c : \E i \in 1..Len(d) : d[i].client_ip = c)

\* The rows of one group, in the order of df_sorted.
GroupOf(d, client_ip) == SelectSeq(d, LAMBDA row : row.client_ip = client_ip)

\* len(call_sequence) >= 3, with > written for >=.
HasErrorContextAfterThree(call_sequence) == Len(call_sequence) > 3

\* len(call_sequence) >= 3
HasErrorContext(call_sequence) == Len(call_sequence) >= 3

\* The entry appended to call_sequence.
CallEntry(row) ==
    [call |-> Call(row),
     timestamp |-> row.timestamp,
     status_code |-> row.status_code,
     response_time |-> row.response_time_ms]

\* The entry appended to error_sequences; error_context is
\* call_sequence[-3:].
ErrorSequenceOf(row, call_sequence) ==
    LET n == Len(call_sequence)
        error_context == SubSeq(call_sequence, n - 2, n)
    IN [error_endpoint |-> Call(row),
        status_code |-> row.status_code,
        preceding_calls |->
            [k \in 1..(Len(error_context) - 1) |-> error_context[k].call],
        timestamp |-> row.timestamp]

RECURSIVE WalkGroup(_, _, _, _)
\* for _, row in group.iterrows(), from row i on.
WalkGroup(group, i, call_sequence, error_sequences) ==
    IF i > Len(group)
    THEN [call_count |-> Len(call_sequence),
          error_sequences |-> error_sequences]
    ELSE LET row == group[i]
             calls == Append(call_sequence, CallEntry(row))
         IN WalkGroup(group, i + 1, calls,
                IF row.status_code >= 400 /\ HasErrorContext(calls)
                THEN Append(error_sequences, ErrorSequenceOf(row, calls))
                ELSE error_sequences)

RECURSIVE Join(_, _)
\* sep.join(strs)
Join(sep, strs) ==
    IF strs = <<>> THEN ""
    ELSE IF Len(strs) = 1 THEN strs[1]
    ELSE strs[1] \o sep \o Join(sep, Tail(strs))

\* ' -> '.join(seq['preceding_calls']) + ' -> ' + seq['error_endpoint']
PatternOf(seq) == Join(" -> ", seq.preceding_calls) \o " -> " \o seq.error_endpoint

RECURSIVE Flatten(_)
\* The concatenation of a sequence of sequences.
Flatten(ss) == IF ss = <<>> THEN <<>> ELSE Head(ss) \o Flatten(Tail(ss))

RECURSIVE CountPatterns(_, _, _)
\* common_patterns[pattern] += 1 over the sequences from i on; a dict as
\* the sequence of its [pattern, count] items in insertion order.
CountPatterns(seqs, i, common_patterns) ==
    IF i > Len(seqs) THEN common_patterns
    ELSE LET pattern == PatternOf(seqs[i])
             at == {k \in 1..Len(common_patterns) :
                        common_patterns[k].pattern = pattern}
         IN CountPatterns(seqs, i + 1,
                IF at = {}
                THEN Append(common_patterns, [pattern |-> pattern, count |-> 1])
                ELSE [k \in 1..Len(common_patterns) |->
                         IF k \in at
                         THEN [common_patterns[k] EXCEPT !.count = @ + 1]
                         ELSE common_patterns[k]])

\* The items as they are, not sorted.
InInsertionOrder(items) == items

\* sorted(common_patterns.items(), key=lambda x: x[1], reverse=True): by
\* count, largest first, items of equal count in their original order.
SortedByCount(items) ==
    LET Place(i) ==
            1 + Cardinality({j \in 1..Len(items) :
                                \/ items[j].count > items[i].count
                                \/ items[j].count = items[i].count /\ j < i})
    IN [k \in 1..Len(items) |->
           items[CHOOSE i \in 1..Len(items) : Place(i) = k]]

\* order is the row order returned by sort_values.
analyze_sequence_patterns(d, order) ==
    IF d = <<>> THEN EmptyDict
    ELSE LET df_sorted == [i \in 1..Len(d) |-> d[order[i]]]
             keys == GroupKeys(df_sorted)
             sequences == [k \in 1..Len(keys) |->
                              WalkGroup(GroupOf(df_sorted, keys[k]), 1, <<>>, <<>>)]
             all_error_sequences ==
                 Flatten([k \in 1..Len(keys) |-> sequences[k].error_sequences])
         IN [client_count |-> Len(sequences),
             common_error_patterns |->
                 SortedByCount(CountPatterns(all_error_sequences, 1, <<>>)),
             error_sequences |-> all_error_sequences]

----------------------------------------------------------------------------
(* SpecSequence: calls of two clients, analyze_sequence_patterns           *)

MaxSequenceRecords == 4

SequenceOffsets == <<10, 20, 30>>

\* The endpoint and status code of a call: /submit fails, /update succeeds
\* or fails.
SequenceCalls ==
    << <<"/submit", 500>>, <<"/update", 200>>, <<"/update", 500>> >>

\* The records of SpecSequence, in chronological order.
SequenceRecordSeq ==
    LET nc == Len(ClientIps)
        ne == Len(SequenceCalls)
    IN [k \in 1..(Len(SequenceOffsets) * nc * ne) |->
          LET t == (k - 1) \div (nc * ne)
              c == ((k - 1) \div ne) % nc
              e == (k - 1) % ne
          IN LogRecord(cutoff_time + SequenceOffsets[t + 1], ClientIps[c + 1],
                       SequenceCalls[e + 1][1], "POST",
                       SequenceCalls[e + 1][2], 100, OkBody)]

\* The position of the last line's record in SequenceRecordSeq.
LastSequenceIndex ==
    IF log_file = <<>> THEN 1
    ELSE CHOOSE k \in DOMAIN SequenceRecordSeq :
            SequenceRecordSeq[k] = log_file[Len(log_file)].rec

\* The server logs the next call; calls are logged in chronological order.
AppendSequence ==
    /\ Len(log_file) < MaxSequenceRecords
    /\ \E k \in DOMAIN SequenceRecordSeq :
          /\ k >= LastSequenceIndex
          /\ AppendLine(SequenceRecordSeq[k])

\* analyze_sequence_patterns(df) on the loaded window.
RunSequencePatterns ==
    /\ pc = "idle"
    /\ df' = load_logs(log_file)
    /\ \E order \in sort_values(df') :
          result' = analyze_sequence_patterns(df', order)
    /\ pc' = "analyze_sequence_patterns"
    /\ UNCHANGED <<log_file, error_threshold, report_file>>

NextSequence == AppendSequence \/ RunSequencePatterns

SpecSequence == Init /\ [][NextSequence]_vars

\* The history of a client: its rows in a chronological order of the window.
HistoryOf(order, client) ==
    SelectSeq([i \in 1..Len(df) |-> df[order[i]]],
              LAMBDA row : row.client_ip = client)

\* The position of a client in the order in which clients are reported.
ClientRank(client) == CHOOSE k \in 1..Len(ClientIps) : ClientIps[k] = client

\* <<client, k>>: the k-th call of the client fails and is at least its
\* third call.
Emitters(order) ==
    {e \in {df[i].client_ip : i \in 1..Len(df)} \X (1..Len(df)) :
        /\ e[2] <= Len(HistoryOf(order, e[1]))
        /\ e[2] >= 3
        /\ HistoryOf(order, e[1])[e[2]].status_code >= 400}

\* The place of an emitter in the flat list: by client, then by call.
EmitterRank(order, e) ==
    1 + Cardinality({f \in Emitters(order) :
                        \/ ClientRank(f[1]) < ClientRank(e[1])
                        \/ f[1] = e[1] /\ f[2] < e[2]})

SequenceDone == pc = "analyze_sequence_patterns" /\ df # <<>>

\* C3: for some chronological order of the window, the ErrorSequences are
\* exactly one per record that has status_code >= 400 and is at least the
\* third call of its client; its preceding_calls are the two calls just
\* before it in the client's history and its error_endpoint the failing
\* call, whatever the status of the earlier calls.
C3_ErrorSequenceEmission ==
    SequenceDone =>
        \E order \in Permutations(1..Len(df)) :
            /\ \A i \in 1..Len(df), j \in 1..Len(df) :
                  i < j => df[order[i]].timestamp <= df[order[j]].timestamp
            /\ Len(result.error_sequences) = Cardinality(Emitters(order))
            /\ \A e \in Emitters(order) :
                  LET history == HistoryOf(order, e[1])
                      seq == result.error_sequences[EmitterRank(order, e)]
                  IN /\ seq.error_endpoint
                           = history[e[2]].method \o " " \o history[e[2]].endpoint
                     /\ seq.status_code = history[e[2]].status_code
                     /\ seq.timestamp = history[e[2]].timestamp
                     /\ seq.preceding_calls
                           = <<history[e[2] - 2].method \o " "
                                   \o history[e[2] - 2].endpoint,
                               history[e[2] - 1].method \o " "
                                   \o history[e[2] - 1].endpoint>>

\* One client makes four calls, failing, successful, failing, failing, all
\* at different times or endpoints: the third and the fourth call each emit
\* a sequence, the first emits none.
C3_Witness ==
    /\ SequenceDone
    /\ Len(df) = 4
    /\ \A i \in 1..4 : df[i].client_ip = "10.0.0.1"
    /\ df[1].status_code = 500 /\ df[1].endpoint = "/submit"
    /\ df[2].status_code = 200 /\ df[2].endpoint = "/update"
    /\ df[2].timestamp > df[1].timestamp
    /\ df[3].status_code = 500 /\ df[3].timestamp > df[2].timestamp
    /\ df[4].status_code = 500
    /\ Len(result.error_sequences) = 2
    /\ result.error_sequences[1].preceding_calls = <<"POST /submit", "POST /update">>
    /\ result.error_sequences[2].preceding_calls[1] = "POST /update"

----------------------------------------------------------------------------
(* cluster_response_times                                                  *)

\* DBSCAN(eps=200, min_samples=5)
eps == 200
min_samples == 5

\* df['response_time_ms'].values
ResponseTimes(d) == [i \in 1..Len(d) |-> d[i].response_time_ms]

Distance(x, y) == IF x >= y THEN x - y ELSE y - x

\* The rows within eps of row i, row i among them.
Neighbors(X, i) == {j \in 1..Len(X) : Distance(X[i], X[j]) <= eps}

\* A core sample test that does not count the row itself.
IsCoreWithoutSelf(X, i) == Cardinality(Neighbors(X, i) \ {i}) >= min_samples

\* A core sample has at least min_samples rows within eps, itself counted.
IsCore(X, i) == Cardinality(Neighbors(X, i)) >= min_samples

\* The rows a core sample pushes on the stack: its neighbours not yet
\* labelled.
UnlabelledNeighbors(X, labels, i) ==
    SelectSeq([k \in 1..Len(X) |-> k],
              LAMBDA v : labels[v] = -1 /\ Distance(X[i], X[v]) <= eps)

RECURSIVE ExpandSeedOnly(_, _, _, _, _)
\* A walk in which only the first row pushes its neighbours.
ExpandSeedOnly(X, labels, i, stack, label_num) ==
    LET fresh  == labels[i] = -1
        marked == IF fresh THEN [labels EXCEPT ![i] = label_num] ELSE labels
        pushed == IF fresh /\ stack = <<>> /\ \A v \in 1..Len(X) : labels[v] # label_num
                  THEN UnlabelledNeighbors(X, marked, i)
                  ELSE stack
    IN IF pushed = <<>> THEN marked
       ELSE ExpandSeedOnly(X, marked, pushed[Len(pushed)],
                           SubSeq(pushed, 1, Len(pushed) - 1), label_num)

RECURSIVE Expand(_, _, _, _, _)
\* The depth-first walk from a core sample: row i takes the label if it has
\* none and, if it is a core sample, its unlabelled neighbours are pushed;
\* the walk goes on from the top of the stack until the stack is empty.
Expand(X, labels, i, stack, label_num) ==
    LET fresh  == labels[i] = -1
        marked == IF fresh THEN [labels EXCEPT ![i] = label_num] ELSE labels
        pushed == IF fresh /\ IsCore(X, i)
                  THEN stack \o UnlabelledNeighbors(X, marked, i)
                  ELSE stack
    IN IF pushed = <<>> THEN marked
       ELSE Expand(X, marked, pushed[Len(pushed)],
                   SubSeq(pushed, 1, Len(pushed) - 1), label_num)

RECURSIVE dbscan_inner(_, _, _, _)
\* Rows are visited in index order; an unlabelled core sample starts the
\* next cluster.
dbscan_inner(X, i, labels, label_num) ==
    IF i > Len(X) THEN labels
    ELSE IF labels[i] # -1 \/ ~IsCore(X, i)
    THEN dbscan_inner(X, i + 1, labels, label_num)
    ELSE dbscan_inner(X, i + 1, Expand(X, labels, i, <<>>, label_num),
                      label_num + 1)

\* DBSCAN(eps=200, min_samples=5).fit(X).labels_ : -1 is noise.
fit(X) == dbscan_inner(X, 1, [i \in 1..Len(X) |-> -1], 0)

RECURSIVE SumOf(_, _)
\* The sum of X[i] over the rows i of S.
SumOf(X, S) ==
    IF S = {} THEN 0
    ELSE LET i == CHOOSE x \in S : TRUE IN X[i] + SumOf(X, S \ {i})

\* cluster_df['response_time_ms'].mean() over the rows of S.
Mean(X, S) == FDiv(SumOf(X, S), Cardinality(S))

\* The endpoints and the methods in the order of sorted().
sorted_endpoints == <<"/authenticate", "/delete", "/fetch", "/submit", "/update">>
sorted_methods == <<"DELETE", "GET", "POST", "PUT">>

\* cluster_df.groupby(['endpoint', 'method']): the keys present among the
\* rows of S, in sorted order.
EndpointMethodKeys(d, S) ==
    SelectSeq([k \in 1..(Len(sorted_endpoints) * Len(sorted_methods)) |->
                  <<sorted_endpoints[((k - 1) \div Len(sorted_methods)) + 1],
                    sorted_methods[((k - 1) % Len(sorted_methods)) + 1]>>],
              LAMBDA key : \E i \in S : /\ d[i].endpoint = key[1]
                                        /\ d[i].method = key[2])

\* slow_endpoints of the cluster whose rows are S.
SlowEndpoints(d, S) ==
    LET keys == EndpointMethodKeys(d, S)
    IN [k \in 1..Len(keys) |->
          LET rows == {i \in S : /\ d[i].endpoint = keys[k][1]
                                 /\ d[i].method = keys[k][2]}
          IN [endpoint |-> keys[k][1],
              method |-> keys[k][2],
              count |-> Cardinality(rows),
              mean_response_time |-> Mean(ResponseTimes(d), rows)]]

\* clusters[f"cluster_{label}"]
ClusterStats(d, labels, label) ==
    LET X == ResponseTimes(d)
        cluster_df == {i \in 1..Len(d) : labels[i] = label}
    IN [name |-> "cluster_" \o Join("", IntToStr(label)),
        size |-> Cardinality(cluster_df),
        avg_response_time |-> Mean(X, cluster_df),
        min_response_time |->
            CHOOSE x \in {X[i] : i \in cluster_df} : \A i \in cluster_df : x <= X[i],
        max_response_time |->
            CHOOSE x \in {X[i] : i \in cluster_df} : \A i \in cluster_df : x >= X[i],
        slow_endpoints |-> SlowEndpoints(d, cluster_df)]

\* The clusters dict as the sequence of its values in the order of the
\* labels, the key of each in its name field.
\* The clustering without the test of an empty window.
cluster_response_times_unguarded(d) ==
    LET labels == fit(ResponseTimes(d))
        found  == {labels[i] : i \in 1..Len(d)} \ {-1}
    IN [cluster_count |-> Cardinality(found),
        clusters |-> [k \in 1..Cardinality(found) |->
                         ClusterStats(d, labels, k - 1)]]

cluster_response_times(d) ==
    IF d = <<>> THEN EmptyDict
    ELSE LET labels == fit(ResponseTimes(d))
             found  == {labels[i] : i \in 1..Len(d)} \ {-1}
         IN [cluster_count |-> Cardinality(found),
             clusters |-> [k \in 1..Cardinality(found) |->
                              ClusterStats(d, labels, k - 1)]]

----------------------------------------------------------------------------
(* SpecCluster: windows of response times, cluster_response_times, and the *)
(* same records clustered again in another row order                       *)

MaxClusterRecords == 9

\* response_time_ms of the calls of SpecCluster.
ClusterTimes == <<100, 290, 300, 480, 670, 860>>

\* The records of SpecCluster.
ClusterRecordSeq ==
    [k \in 1..Len(ClusterTimes) |->
        LogRecord(cutoff_time + 60, "10.0.0.1", "/fetch", "GET", 200,
                  ClusterTimes[k], OkBody)]

\* The position of the last line's record in ClusterRecordSeq.
LastClusterIndex ==
    IF log_file = <<>> THEN 1
    ELSE CHOOSE k \in DOMAIN ClusterRecordSeq :
            ClusterRecordSeq[k] = log_file[Len(log_file)].rec

\* The server logs the next call.
AppendCluster ==
    /\ Len(log_file) < MaxClusterRecords
    /\ \E k \in DOMAIN ClusterRecordSeq :
          /\ k >= LastClusterIndex
          /\ AppendLine(ClusterRecordSeq[k])

\* cluster_response_times(df) on the loaded window.
RunClusterResponseTimes ==
    /\ pc = "idle"
    /\ df' = load_logs(log_file)
    /\ result' = cluster_response_times(df')
    /\ pc' = "cluster_response_times"
    /\ UNCHANGED <<log_file, error_threshold, report_file>>

\* Row orders of a window of n rows: the same order, the rows from the
\* second on followed by the first, and the reverse order.
Reorderings(n) ==
    {[i \in 1..n |-> i], [i \in 1..n |-> (i % n) + 1], [i \in 1..n |-> n + 1 - i]}

\* cluster_response_times(df) again, on the same records in some row order.
RunClusterResponseTimesAgain ==
    /\ pc = "cluster_response_times"
    /\ df # <<>>
    /\ \E order \in Reorderings(Len(df)) :
          /\ df' = [i \in 1..Len(df) |-> df[order[i]]]
          /\ result' = [first |-> result, again |-> cluster_response_times(df')]
    /\ pc' = "cluster_response_times_again"
    /\ UNCHANGED <<log_file, error_threshold, report_file>>

NextCluster ==
    AppendCluster \/ RunClusterResponseTimes \/ RunClusterResponseTimesAgain

SpecCluster == Init /\ [][NextCluster]_vars

ClusterDone == pc = "cluster_response_times" /\ df # <<>>

\* G has at least 5 rows, all within 200ms of one another, and every row
\* outside G is more than 200ms away from every row of G.
IsolatedGroup(X, G) ==
    /\ Cardinality(G) >= 5
    /\ \A i \in G, j \in G : X[i] - X[j] <= 200
    /\ \A i \in G, j \in (1..Len(X)) \ G :
          X[i] - X[j] > 200 \/ X[j] - X[i] > 200

\* C9: for every isolated group G of the window, exactly one reported
\* cluster has the rows of G as its members, with size |G|, the extremes of
\* G as min and max and the mean of G as avg; no row of G is in another
\* cluster and no other row is in this one.
C9_IsolatedGroupIsOneCluster ==
    ClusterDone =>
        LET X == ResponseTimes(df)
        IN \A labels \in {fit(X)}, G \in SUBSET (1..Len(df)) :
              IsolatedGroup(X, G) =>
                 \E k \in 1..result.cluster_count :
                    /\ {i \in 1..Len(df) : labels[i] = k - 1} = G
                    /\ result.clusters[k].size = Cardinality(G)
                    /\ \A i \in G : /\ result.clusters[k].min_response_time <= X[i]
                                    /\ result.clusters[k].max_response_time >= X[i]
                    /\ \E i \in G : result.clusters[k].min_response_time = X[i]
                    /\ \E i \in G : result.clusters[k].max_response_time = X[i]
                    /\ result.clusters[k].avg_response_time
                          = FDiv(SumOf(X, G), Cardinality(G))
                    /\ \A j \in 1..result.cluster_count :
                          j # k => \A i \in G : labels[i] # j - 1

\* Five calls between 100ms and 300ms, one at 670ms and one at 860ms: the
\* five are the only cluster.
C9_Witness ==
    /\ ClusterDone
    /\ ResponseTimes(df) = <<100, 100, 290, 300, 300, 670, 860>>
    /\ result.cluster_count = 1
    /\ result.clusters[1].size = 5
    /\ result.clusters[1].min_response_time = 100
    /\ result.clusters[1].max_response_time = 300

ClusterAgainDone == pc = "cluster_response_times_again"

\* A row that is no core sample lies within the radius of core samples of
\* two clusters.
BorderTie(d) ==
    LET X == ResponseTimes(d)
    IN \E labels \in {fit(X)}, cores \in {{i \in 1..Len(d) : IsCore(X, i)}} :
          \E i \in (1..Len(d)) \ cores :
             \E j \in cores, k \in cores :
                /\ j \in Neighbors(X, i) /\ k \in Neighbors(X, i)
                /\ labels[j] # labels[k]

\* The members of each cluster of a window, each as the number of
\* occurrences of every record in it.
MemberBags(d) ==
    UNION {{[r \in Seq2Set(d) |->
                Cardinality({i \in 1..Len(d) : labels[i] = l /\ d[i] = r})] :
            l \in {labels[i] : i \in 1..Len(d)} \ {-1}} :
           labels \in {fit(ResponseTimes(d))}}

\* What is reported of the clusters, apart from their names.
ReportedClusters(r) ==
    {[size |-> r.clusters[k].size,
      avg_response_time |-> r.clusters[k].avg_response_time,
      min_response_time |-> r.clusters[k].min_response_time,
      max_response_time |-> r.clusters[k].max_response_time,
      slow_endpoints |-> r.clusters[k].slow_endpoints] :
        k \in 1..r.cluster_count}

\* C10: when no row is tied between the radii of two clusters, clustering
\* the same records again, in the same or in another row order, reports
\* the same number of clusters with the same members.
C10_ReclusteringSameMembership ==
    (ClusterAgainDone /\ ~BorderTie(df)) =>
        /\ result.again.cluster_count = result.first.cluster_count
        /\ MemberBags(df) = MemberBags(load_logs(log_file))
        /\ ReportedClusters(result.again) = ReportedClusters(result.first)

\* A cluster with a row that is no core sample and a row outside every
\* cluster, clustered again in the reverse row order.
C10_Witness ==
    /\ ClusterAgainDone
    /\ ResponseTimes(load_logs(log_file)) = <<100, 100, 100, 290, 480, 860>>
    /\ ResponseTimes(df) = <<860, 480, 290, 100, 100, 100>>
    /\ ~BorderTie(df)
    /\ result.first.cluster_count = 1
    /\ result.again.clusters[1].size = 5
    /\ ~IsCore(ResponseTimes(df), 2)

----------------------------------------------------------------------------
(* Text of the insights: str methods and format specifications             *)

\* The characters of a string.
Chars(s) == [i \in 1..Len(s) |-> SubSeq(s, i, i)]

IsLetter(c) == \E j \in 1..26 : UpperChars[j] = c \/ LowerChars[j] = c

\* c.upper() of one character.
UpperOf(c) ==
    IF \E j \in 1..26 : LowerChars[j] = c
    THEN UpperChars[CHOOSE j \in 1..26 : LowerChars[j] = c]
    ELSE c

\* s.replace(old, new) for single characters old and new.
Replace(s, old, new) == [i \in 1..Len(s) |-> IF s[i] = old THEN new ELSE s[i]]

\* s.title(): a letter that follows no letter is upper case, every other
\* letter lower case.
Title(s) ==
    [i \in 1..Len(s) |->
        IF i = 1 \/ ~IsLetter(s[i - 1]) THEN UpperOf(s[i])
        ELSE Lower(<<s[i]>>)[1]]

\* 10 * (2^52 + fraction bits) of a double > 0, as a number of 57 bits in
\* the limbs top (5 bits), l1, l2 (18 bits each) and l3 (16 bits).
TenTimes(x) ==
    LET p3 == x.mant[3] * 10
        p2 == x.mant[2] * 10 + p3 \div LowLimb
        p1 == x.mant[1] * 10 + p2 \div Limb
    IN [top |-> 10 + p1 \div Limb, l1 |-> p1 % Limb, l2 |-> p2 % Limb,
        l3 |-> p3 % LowLimb]

\* Bit k of such a number.
BitOf(t, k) ==
    IF k < 0 \/ k > 56 THEN 0
    ELSE IF k < 16 THEN (t.l3 \div 2^k) % 2
    ELSE IF k < 34 THEN (t.l2 \div 2^(k - 16)) % 2
    ELSE IF k < 52 THEN (t.l1 \div 2^(k - 34)) % 2
    ELSE (t.top \div 2^(k - 52)) % 2

RECURSIVE BitsFrom(_, _)
\* The number made of the bits k and above.
BitsFrom(t, k) == IF k > 56 THEN 0 ELSE BitOf(t, k) + 2 * BitsFrom(t, k + 1)

\* The double x (0 <= x < 2^17) in tenths, rounded to the nearest tenth,
\* a value halfway between two to the even one: the digits of format .1f.
Tenths(x) ==
    IF IsFZero(x) THEN 0
    ELSE LET t      == TenTimes(x)
             s      == 52 - x.exp
             whole  == BitsFrom(t, s)
             guard  == BitOf(t, s - 1) = 1
             sticky == \E k \in 0..55 : k < s - 1 /\ BitOf(t, k) = 1
         IN IF guard /\ (sticky \/ whole % 2 = 1) THEN whole + 1 ELSE whole

\* f"{x:.1f}"
Format1f(x) ==
    IntToStr(Tenths(x) \div 10) \o <<".">> \o IntToStr(Tenths(x) % 10)

\* f"{x:.1%}": x * 100 in format .1f and a percent sign.
FormatPercent(x) == Format1f(FMulK(x, 100, 0)) \o <<"%">>

----------------------------------------------------------------------------
(* generate_insights                                                       *)

\* d and key in d, for a dict d.
HasKey(d, key) == d # EmptyDict /\ key \in DOMAIN d

\* The test of a significant pattern with > written for >=.
IsSignificantAbove(percentage) == FLess(FDiv(20, 1), percentage)

\* percentage >= 20
IsSignificant(percentage) == ~FLess(percentage, FDiv(20, 1))

\* The insights on the most common error types.
ErrorTypeInsights(error_patterns_result) ==
    IF ~HasKey(error_patterns_result, "error_types") THEN <<>>
    ELSE LET error_types == error_patterns_result.error_types
             order == error_patterns_result.type_order
             items == [k \in 1..Len(order) |->
                          [error_type |-> order[k], count |-> error_types[order[k]]]]
             total_errors == SumOver(items, "count", 1..Len(items))
             ranked == SortedByCount(items)
             top == SubSeq(ranked, 1, IF Len(ranked) < 3 THEN Len(ranked) ELSE 3)
             percentage(item) == FMulK(FDiv(item.count, total_errors), 100, 0)
             significant ==
                 SelectSeq(top, LAMBDA item : IsSignificant(percentage(item)))
         IN IF total_errors > 0
            THEN [k \in 1..Len(significant) |->
                    Title(Replace(Chars(significant[k].error_type), "_", " "))
                       \o Chars(" errors account for ")
                       \o Format1f(percentage(significant[k]))
                       \o Chars("% of all failures")]
            ELSE <<>>

\* sorted(slow_endpoints, key=lambda x: x['mean_response_time'],
\* reverse=True)[0]: the first entry with the largest mean.
Slowest(slow_endpoints) ==
    slow_endpoints[CHOOSE i \in 1..Len(slow_endpoints) :
        /\ \A j \in 1..Len(slow_endpoints) :
              ~FLess(slow_endpoints[i].mean_response_time,
                     slow_endpoints[j].mean_response_time)
        /\ \A j \in 1..(i - 1) :
              FLess(slow_endpoints[j].mean_response_time,
                    slow_endpoints[i].mean_response_time)]

\* The test of a large, slow cluster with > written for >= on the size.
IsLargeSlowAboveTen(cluster_data) ==
    cluster_data.size > 10 /\ FLess(FDiv(1000, 1), cluster_data.avg_response_time)

\* cluster_data['size'] >= 10 and cluster_data['avg_response_time'] > 1000
IsLargeSlow(cluster_data) ==
    cluster_data.size >= 10 /\ FLess(FDiv(1000, 1), cluster_data.avg_response_time)

\* The insights on one cluster.
ClusterInsight(cluster_data) ==
    IF IsLargeSlow(cluster_data)
    THEN << Chars("Identified a group of ") \o IntToStr(cluster_data.size)
               \o Chars(" requests with consistently high response times (avg: ")
               \o Format1f(cluster_data.avg_response_time) \o Chars("ms)") >>
         \o (IF cluster_data.slow_endpoints # <<>>
             THEN LET slowest == Slowest(cluster_data.slow_endpoints)
                  IN << Chars("The slowest endpoint in this group is ")
                           \o Chars(slowest.method) \o <<" ">>
                           \o Chars(slowest.endpoint)
                           \o Chars(" with average response time of ")
                           \o Format1f(slowest.mean_response_time)
                           \o Chars("ms") >>
             ELSE <<>>)
    ELSE <<>>

\* The insights on large, slow clusters.
ClusterInsights(response_time_clusters) ==
    IF ~HasKey(response_time_clusters, "clusters") THEN <<>>
    ELSE Flatten([k \in 1..Len(response_time_clusters.clusters) |->
                     ClusterInsight(response_time_clusters.clusters[k])])

\* The test of a significant occurrence with 2 written for 3.
IsFrequentFromTwo(count) == count >= 2

\* count >= 3
IsFrequent(count) == count >= 3

\* The insights on the first two sequence patterns.
SequenceInsights(sequence_patterns) ==
    IF ~HasKey(sequence_patterns, "common_error_patterns") THEN <<>>
    ELSE LET common_patterns == sequence_patterns.common_error_patterns
             first_two == SubSeq(common_patterns, 1,
                             IF Len(common_patterns) < 2 THEN Len(common_patterns)
                             ELSE 2)
             frequent == SelectSeq(first_two, LAMBDA item : IsFrequent(item.count))
         IN [k \in 1..Len(frequent) |->
                Chars("Detected a common error pattern (")
                   \o IntToStr(frequent[k].count) \o Chars(" occurrences): ")
                   \o Chars(frequent[k].pattern)]

RECURSIVE HoursStr(_, _)
\* ', '.join([f"{h}:00" for h in hours_list]) for the hours of S from h on.
HoursStr(S, h) ==
    IF h > 23 THEN <<>>
    ELSE IF h \notin S THEN HoursStr(S, h + 1)
    ELSE IntToStr(h) \o Chars(":00")
            \o (IF \E g \in S : g > h THEN Chars(", ") ELSE <<>>)
            \o HoursStr(S, h + 1)

\* The test of a single problematic hour with >= written for ==.
IsSingleHourOrMore(hours_list) == Cardinality(hours_list) >= 1

\* len(hours_list) == 1
IsSingleHour(hours_list) == Cardinality(hours_list) = 1

\* The insight on the problematic hours.
PeriodicInsights(periodic_failures) ==
    IF ~HasKey(periodic_failures, "problematic_hours") THEN <<>>
    ELSE LET problematic_hours == periodic_failures.problematic_hours
             hours == DOMAIN problematic_hours
         IN IF IsSingleHour(hours)
            THEN LET hour == CHOOSE h \in hours : TRUE
                 IN << Chars("Hour ") \o IntToStr(hour)
                          \o Chars(":00 shows elevated error rates (")
                          \o FormatPercent(problematic_hours[hour].error_rate)
                          \o Chars("), which may indicate scheduled jobs or maintenance windows") >>
            ELSE IF Cardinality(hours) > 1
            THEN << Chars("Multiple hours show elevated error rates: ")
                       \o HoursStr(hours, 0) >>
            ELSE <<>>

\* dependencies[0] of the list as it is, not sorted.
FirstListed(dependencies) == dependencies[1]

\* sorted(dependencies, key=lambda x: x['co_failure_count'],
\* reverse=True)[0]: the first entry with the largest co_failure_count.
Strongest(dependencies) ==
    dependencies[CHOOSE i \in 1..Len(dependencies) :
        /\ \A j \in 1..Len(dependencies) :
              dependencies[j].co_failure_count <= dependencies[i].co_failure_count
        /\ \A j \in 1..(i - 1) :
              dependencies[j].co_failure_count < dependencies[i].co_failure_count]

\* The insight on the strongest dependency.
DependencyInsights(dependency_correlations) ==
    IF ~HasKey(dependency_correlations, "likely_dependencies") THEN <<>>
    ELSE LET dependencies == dependency_correlations.likely_dependencies
         IN IF dependencies = <<>> THEN <<>>
            ELSE LET dep == Strongest(dependencies)
                 IN << Chars("Detected potential dependency: failures on ")
                          \o Chars(dep.source_endpoint)
                          \o Chars(" correlate with failures on ")
                          \o Chars(dep.dependent_endpoint) \o Chars(" (")
                          \o IntToStr(dep.co_failure_count)
                          \o Chars(" co-occurrences)") >>

generate_insights(error_patterns_result, response_time_clusters, sequence_patterns, periodic_failures, dependency_correlations) ==
    ErrorTypeInsights(error_patterns_result)
       \o ClusterInsights(response_time_clusters)
       \o SequenceInsights(sequence_patterns)
       \o PeriodicInsights(periodic_failures)
       \o DependencyInsights(dependency_correlations)

----------------------------------------------------------------------------
(* generate_recommendations                                                *)

\* <<text>> when the condition holds, else nothing.
When(condition, text) == IF condition THEN <<Chars(text)>> ELSE <<>>

\* The test of a count with >= written for >.
CountAtLeast(error_types, name, n) ==
    name \in DOMAIN error_types /\ error_types[name] >= n

\* 'name' in error_types and error_types['name'] > n
CountAbove(error_types, name, n) ==
    name \in DOMAIN error_types /\ error_types[name] > n

ErrorTypeRecommendations(error_patterns_result) ==
    IF ~HasKey(error_patterns_result, "error_types") THEN <<>>
    ELSE LET error_types == error_patterns_result.error_types
         IN When(CountAbove(error_types, "auth_failure", 0),
                 "Review authentication mechanisms and token lifetimes to address authentication failures")
            \o When(CountAbove(error_types, "rate_limit", 0),
                 "Implement client-side rate limiting or request queuing to prevent rate limit errors")
            \o When(CountAbove(error_types, "invalid_input", 0),
                 "Enhance input validation on the client side before sending requests")
            \o When(CountAbove(error_types, "timeout", 0),
                 "Implement retry mechanisms with exponential backoff for requests that time out")
            \o When(CountAbove(error_types, "server_error", 0),
                 "Check server logs for exceptions and consider implementing circuit breakers for unstable services")
            \o When(CountAbove(error_types, "unclassified", 5),
                 "Implement more detailed error messages in API responses to better classify unidentified errors")

ClusterRecommendations(response_time_clusters) ==
    IF ~HasKey(response_time_clusters, "clusters") THEN <<>>
    ELSE LET clusters == response_time_clusters.clusters
             has_slow_cluster ==
                 \E k \in 1..Len(clusters) :
                    FLess(FDiv(1500, 1), clusters[k].avg_response_time)
         IN When(has_slow_cluster,
                 "Consider implementing performance tracing to identify bottlenecks in slow endpoints")
            \o When(has_slow_cluster,
                 "Review database queries and external service calls in the slowest endpoints")

SequenceRecommendations(sequence_patterns) ==
    IF ~HasKey(sequence_patterns, "common_error_patterns") THEN <<>>
    ELSE When(sequence_patterns.common_error_patterns # <<>>,
              "Analyze API call sequences to identify and fix dependency chains that lead to failures")

PeriodicRecommendations(periodic_failures) ==
    IF ~HasKey(periodic_failures, "problematic_hours") THEN <<>>
    ELSE When(DOMAIN periodic_failures.problematic_hours # {},
              "Review scheduled tasks and maintenance windows to reduce impact during high-error time periods")

DependencyRecommendations(dependency_correlations) ==
    IF ~HasKey(dependency_correlations, "likely_dependencies") THEN <<>>
    ELSE LET dependencies == dependency_correlations.likely_dependencies
         IN When(dependencies # <<>>,
                 "Implement health checks and circuit breakers for critical dependencies")
            \o When(dependencies # <<>>,
                 "Consider implementing fallback mechanisms for frequently failing dependencies")

generate_recommendations(error_patterns_result, response_time_clusters, sequence_patterns, periodic_failures, dependency_correlations) ==
    ErrorTypeRecommendations(error_patterns_result)
       \o ClusterRecommendations(response_time_clusters)
       \o SequenceRecommendations(sequence_patterns)
       \o PeriodicRecommendations(periodic_failures)
       \o DependencyRecommendations(dependency_correlations)
       \o When(TRUE, "Set up automated alerts based on the identified error patterns and thresholds")
       \o When(TRUE, "Implement comprehensive logging with contextual information for better root cause analysis")

----------------------------------------------------------------------------
(* Windows without an endpoint column: the analyzers that raise            *)

\* The KeyError raised by a lookup of key, in the analyzer that made it.
KeyError(key, analyzer) ==
    [exception |-> "KeyError", key |-> key, raised_in |-> analyzer]

\* The five analyzers, in the order in which generate_failure_report calls
\* them.
Analyzers ==
    <<"identify_error_patterns", "cluster_response_times",
      "analyze_sequence_patterns", "analyze_periodic_failures",
      "analyze_dependency_correlation">>

\* The analyzer raises KeyError: 'endpoint' on the window d.  A window
\* without the column makes identify_error_patterns fail at
\* row['endpoint'] for its first failing row, cluster_response_times at
\* groupby(['endpoint', 'method']) for its first cluster,
\* analyze_sequence_patterns at row['endpoint'] for its first row and
\* analyze_dependency_correlation at [...]['endpoint'] for its first minute
\* with a failing row; analyze_periodic_failures does not read the column.
Raises(analyzer, d) ==
    /\ d # <<>>
    /\ ~HasColumn(d, "endpoint")
    /\ CASE analyzer = "identify_error_patterns" -> errors_of(d) # <<>>
         [] analyzer = "cluster_response_times" ->
               \E labels \in {fit(ResponseTimes(d))} :
                  \E i \in 1..Len(d) : labels[i] # -1
         [] analyzer = "analyze_sequence_patterns" -> TRUE
         [] analyzer = "analyze_periodic_failures" -> FALSE
         [] analyzer = "analyze_dependency_correlation" -> errors_of(d) # <<>>

----------------------------------------------------------------------------
(* generate_failure_report                                                 *)

\* The test of the short circuit with or written for and.
SkipsAnalysisOnEither(error_rate, threshold, error_requests) ==
    FLess(error_rate, threshold) \/ error_requests < 10

\* error_rate < self.error_threshold and error_requests < 10
SkipsAnalysis(error_rate, threshold, error_requests) ==
    FLess(error_rate, threshold) /\ error_requests < 10

\* The report on the window d, or the exception of the first analyzer that
\* raises: the five calls are made outside any try. threshold is
\* self.error_threshold, sorted_order the row order sort_values returns and
\* set_order the order in which the set of failing endpoints is iterated.
generate_failure_report(d, threshold, sorted_order, set_order) ==
    IF d = <<>>
    THEN [status |-> "error", message |-> "No logs available for analysis"]
    ELSE LET total_requests == Len(d)
             error_requests == Len(errors_of(d))
             error_rate == FDiv(error_requests, total_requests)
         IN IF SkipsAnalysis(error_rate, threshold, error_requests)
            THEN [status |-> "success",
                  total_requests |-> total_requests,
                  error_requests |-> error_requests,
                  error_rate |-> error_rate,
                  message |-> "Error rate below threshold, no detailed analysis performed"]
            ELSE IF \E k \in DOMAIN Analyzers : Raises(Analyzers[k], d)
            THEN KeyError("endpoint",
                     Analyzers[CHOOSE k \in DOMAIN Analyzers :
                                  /\ Raises(Analyzers[k], d)
                                  /\ \A j \in 1..(k - 1) : ~Raises(Analyzers[j], d)])
            ELSE LET error_patterns_result == identify_error_patterns(d)
                     response_time_clusters == cluster_response_times(d)
                     sequence_patterns == analyze_sequence_patterns(d, sorted_order)
                     periodic_failures == analyze_periodic_failures(d)
                     dependency_correlations ==
                         analyze_dependency_correlation(d, set_order)
                 IN [status |-> "success",
                     timestamp |-> Now,
                     total_requests |-> total_requests,
                     error_requests |-> error_requests,
                     error_rate |-> error_rate,
                     error_patterns |-> error_patterns_result,
                     response_time_clusters |-> response_time_clusters,
                     sequence_patterns |-> sequence_patterns,
                     periodic_failures |-> periodic_failures,
                     dependency_correlations |-> dependency_correlations,
                     insights |->
                         generate_insights(error_patterns_result,
                             response_time_clusters, sequence_patterns,
                             periodic_failures, dependency_correlations),
                     recommended_actions |->
                         generate_recommendations(error_patterns_result,
                             response_time_clusters, sequence_patterns,
                             periodic_failures, dependency_correlations)]

----------------------------------------------------------------------------
(* Spec: an analyzer constructed with an error threshold, a log of calls,  *)
(* generate_failure_report                                                 *)

MaxReportRecords == 11

\* The error_threshold arguments of the constructor: 0.2, the default, and
\* 0.95.
ReportThresholds == {[num |-> 1, den |-> 5], [num |-> 19, den |-> 20]}

\* The analyzer as constructed with one of the thresholds.
InitReport ==
    /\ log_file = <<>>
    /\ error_threshold \in ReportThresholds
    /\ df = <<>>
    /\ pc = "idle"
    /\ result = EmptyDict
    /\ report_file = <<>>

\* The calls of the log: a successful one and two failing ones with the
\* messages of their status codes.
ReportCalls ==
    << [endpoint |-> "/fetch", method |-> "GET", status_code |-> 200,
        response_time_ms |-> 100, response_body |-> OkBody],
       [endpoint |-> "/submit", method |-> "POST", status_code |-> 500,
        response_time_ms |-> 1200,
        response_body |-> ErrorBody(Chars("Internal Server Error"))],
       [endpoint |-> "/update", method |-> "POST", status_code |-> 403,
        response_time_ms |-> 1300,
        response_body |-> ErrorBody(Chars("Forbidden: Access denied"))] >>

\* Seconds between two calls.
ReportCallSpacing == 20

\* The position in ReportCalls of the last call logged.
LastReportIndex ==
    IF log_file = <<>> THEN 1
    ELSE CHOOSE k \in DOMAIN ReportCalls :
            ReportCalls[k].endpoint = log_file[Len(log_file)].rec.endpoint

\* The server logs the next call, ReportCallSpacing seconds after the last.
AppendReport ==
    /\ Len(log_file) < MaxReportRecords
    /\ \E k \in DOMAIN ReportCalls :
          /\ k >= LastReportIndex
          /\ AppendLine(LogRecord(
                 cutoff_time + ReportCallSpacing * (Len(log_file) + 1),
                 "10.0.0.1", ReportCalls[k].endpoint, ReportCalls[k].method,
                 ReportCalls[k].status_code, ReportCalls[k].response_time_ms,
                 ReportCalls[k].response_body))

\* generate_failure_report(): the logs are loaded, the report is built and,
\* unless the analysis is skipped or the window is empty, saved to a file.
RunGenerateFailureReport ==
    /\ pc = "idle"
    /\ df' = load_logs(log_file)
    /\ \E sorted_order \in sort_values(df'),
          set_order \in SetOrders(EndpointsOf(errors_of(df'))) :
          result' = generate_failure_report(df',
                        FloatOf(error_threshold), sorted_order, set_order)
    /\ report_file' = IF "insights" \in DOMAIN result'
                      THEN Append(report_file, result')
                      ELSE report_file
    /\ pc' = "generate_failure_report"
    /\ UNCHANGED <<log_file, error_threshold>>

Next == AppendReport \/ RunGenerateFailureReport

Spec == InitReport /\ [][Next]_vars

ReportDone == pc = "generate_failure_report" /\ df # <<>>

\* The keys of the window summary.
SummaryKeys == {"status", "total_requests", "error_requests", "error_rate", "message"}

\* The keys of the five analyzer sections.
SectionKeys ==
    {"error_patterns", "response_time_clusters", "sequence_patterns",
     "periodic_failures", "dependency_correlations"}

\* C1: for a non-empty window the report is the window summary alone, with
\* no analyzer section, no insights and no recommended_actions, iff the
\* error rate is below error_threshold and fewer than 10 records have
\* status_code >= 400; otherwise it has the five analyzer sections,
\* insights and recommended_actions.
C1_ShortCircuitIffBelowBoth ==
    ReportDone =>
        LET errors == Cardinality({i \in 1..Len(df) : df[i].status_code >= 400})
            below  == /\ errors * error_threshold.den < error_threshold.num * Len(df)
                      /\ errors < 10
        IN /\ below <=> DOMAIN result = SummaryKeys
           /\ ~below =>
                 (SectionKeys \cup {"insights", "recommended_actions"})
                     \subseteq DOMAIN result
           /\ result.total_requests = Len(df)
           /\ result.error_requests = errors

\* Ten failing records out of eleven with error_threshold 0.95: the error
\* rate is below the threshold and the report is the full one.
C1_Witness ==
    /\ ReportDone
    /\ error_threshold = [num |-> 19, den |-> 20]
    /\ Len(df) = 11
    /\ result.error_requests = 10
    /\ "insights" \in DOMAIN result
    /\ result.insights # <<>>
    /\ Len(result.recommended_actions) > 2

----------------------------------------------------------------------------
(* SpecInsights: logs of failing calls with messages of five categories,   *)
(* generate_failure_report and the error-category insights of its report   *)

MaxInsightRecords == 5

\* The calls of the log, in the order in which the server makes them: the
\* error texts fall in unclassified, server_error, timeout, rate_limit and
\* auth_failure; the last call succeeds.
InsightCalls ==
    << [status_code |-> 400, response_body |-> ErrorBody(Chars("quota"))],
       [status_code |-> 500, response_body |-> ErrorBody(Chars("Internal Server Error"))],
       [status_code |-> 504, response_body |-> ErrorBody(Chars("Request timed out"))],
       [status_code |-> 429, response_body |-> ErrorBody(Chars("Rate limit exceeded"))],
       [status_code |-> 401, response_body |-> ErrorBody(Chars("invalid token"))],
       [status_code |-> 200, response_body |-> OkBody] >>

\* The position in InsightCalls of the last call logged.
LastInsightIndex ==
    IF log_file = <<>> THEN 1
    ELSE CHOOSE k \in DOMAIN InsightCalls :
            /\ InsightCalls[k].status_code = log_file[Len(log_file)].rec.status_code

\* The server logs the next call, ReportCallSpacing seconds after the last.
AppendInsights ==
    /\ Len(log_file) < MaxInsightRecords
    /\ \E k \in DOMAIN InsightCalls :
          /\ k >= LastInsightIndex
          /\ AppendLine(LogRecord(
                 cutoff_time + ReportCallSpacing * (Len(log_file) + 1),
                 "10.0.0.1", "/submit", "POST", InsightCalls[k].status_code,
                 100, InsightCalls[k].response_body))

NextInsights == AppendInsights \/ RunGenerateFailureReport

SpecInsights == Init /\ [][NextInsights]_vars

\* A full report has been returned.
InsightsDone == pc = "generate_failure_report" /\ "insights" \in DOMAIN result

\* The name of a category as a title.
CategoryTitle ==
    [auth_failure |-> "Auth Failure", rate_limit |-> "Rate Limit",
     invalid_input |-> "Invalid Input", timeout |-> "Timeout",
     resource_unavailable |-> "Resource Unavailable",
     server_error |-> "Server Error",
     dependency_failure |-> "Dependency Failure",
     concurrency |-> "Concurrency", unclassified |-> "Unclassified"]

\* count out of total in percent with one decimal, from the nearest tenth
\* of a percent.
PercentText(count, total) ==
    LET tenths == (2000 * count + total) \div (2 * total)
    IN IntToStr(tenths \div 10) \o <<".">> \o IntToStr(tenths % 10)

\* The insight on category c holding count of the total failures.
CategoryInsight(c, count, total) ==
    Chars(CategoryTitle[c]) \o Chars(" errors account for ")
       \o PercentText(count, total) \o Chars("% of all failures")

\* The position of category c in the ranking by descending count, a
\* category counted first coming first among those of equal count.
RankOf(error_types, type_order, c) ==
    LET Pos(x) == CHOOSE k \in 1..Len(type_order) : type_order[k] = x
    IN 1 + Cardinality({x \in DOMAIN error_types :
                           \/ error_types[x] > error_types[c]
                           \/ /\ error_types[x] = error_types[c]
                              /\ Pos(x) < Pos(c)})

\* The insights of the report that are error-category insights.
CategoryInsightsOf(insights) ==
    {i \in 1..Len(insights) :
        /\ Len(insights[i]) > Len(" of all failures")
        /\ SubSeq(insights[i], Len(insights[i]) - Len(" of all failures") + 1,
                  Len(insights[i])) = Chars(" of all failures")}

\* C11: ranking the categories by descending error count, the report has
\* the insight naming a category and its percentage of all failures for
\* exactly the categories in the first three positions whose share is at
\* least 20%, in ranking order and before every other insight; a category
\* outside the first three has none, and there are never more than three.
\* When every failing record is auth_failure, its count is the number of
\* failing records and the insight is "Auth Failure errors account for
\* 100.0% of all failures".
C11_TopThreeSignificantCategories ==
    (InsightsDone /\ "error_types" \in DOMAIN result.error_patterns) =>
        LET error_types == result.error_patterns.error_types
            type_order  == result.error_patterns.type_order
            total       == Len(errors_of(df))
            Qualifies(c) ==
                /\ RankOf(error_types, type_order, c) <= 3
                /\ 100 * error_types[c] >= 20 * total
            qualifying  == {c \in DOMAIN error_types : Qualifies(c)}
            reported    == CategoryInsightsOf(result.insights)
        IN /\ \A c \in DOMAIN error_types :
                 Qualifies(c) <=>
                    \E i \in reported :
                       result.insights[i] = CategoryInsight(c, error_types[c], total)
           /\ Cardinality(reported) = Cardinality(qualifying)
           /\ Cardinality(reported) <= 3
           /\ reported = 1..Cardinality(reported)
           /\ \A c, e \in qualifying :
                 RankOf(error_types, type_order, c) < RankOf(error_types, type_order, e)
                    => \E i, j \in reported :
                          /\ i < j
                          /\ result.insights[i] = CategoryInsight(c, error_types[c], total)
                          /\ result.insights[j] = CategoryInsight(e, error_types[e], total)
           /\ (\A i \in 1..Len(df) :
                  IsError(df[i]) => FirstInTaxonomy(LowerErrorText(df[i])) = "auth_failure")
                 => /\ error_types["auth_failure"] = total
                    /\ result.insights[1]
                          = Chars("Auth Failure errors account for 100.0% of all failures")

\* Five failing records of five categories, 20% each: the first three of
\* the ranking have their insight, the other two have none.
C11_Witness ==
    /\ InsightsDone
    /\ "error_types" \in DOMAIN result.error_patterns
    /\ Len(errors_of(df)) = 5
    /\ Cardinality(DOMAIN result.error_patterns.error_types) = 5
    /\ Cardinality(CategoryInsightsOf(result.insights)) = 3
    /\ result.insights[3] = Chars("Timeout errors account for 20.0% of all failures")

----------------------------------------------------------------------------
(* SpecRecommend: _generate_recommendations on analyzer results: each of   *)
(* its five arguments is {} or what the analyzer returns on a window       *)

MaxUnclassified == 6

\* The error texts of the five categories that have a recommendation.
RecommendMessages ==
    <<"invalid token", "Rate limit exceeded", "Bad Request: Invalid input",
      "Request timed out", "Internal Server Error">>

\* A window of calls, one every ReportCallSpacing seconds, call k with
\* status_code statuses[k], response time times[k], endpoint endpoints[k]
\* and, when it fails, the error text messages[k].
WindowOf(statuses, times, endpoints, messages) ==
    [k \in 1..Len(statuses) |->
        LogRecord(cutoff_time + ReportCallSpacing * k, "10.0.0.1",
                  endpoints[k], "POST", statuses[k], times[k],
                  IF statuses[k] >= 400 THEN ErrorBody(Chars(messages[k]))
                  ELSE OkBody)]

\* n times the value v.
Repeat(v, n) == [k \in 1..n |-> v]

\* The window with one failing call for each message of RecommendMessages
\* whose position is in S, then u failing calls with a text of no category;
\* a single successful call when there is none of either.
ErrorWindow(S, u) ==
    LET all == WindowOf(Repeat(500, Len(RecommendMessages) + u),
                        Repeat(100, Len(RecommendMessages) + u),
                        Repeat("/submit", Len(RecommendMessages) + u),
                        RecommendMessages \o Repeat("quota", u))
        kept == SelectSeq(all,
                    LAMBDA r : \E k \in S \cup {j \in 1..Len(all) : j > Len(RecommendMessages)} :
                                  r = all[k])
    IN IF kept = <<>>
       THEN WindowOf(<<200>>, <<100>>, <<"/submit">>, <<"">>)
       ELSE kept

\* The error_patterns arguments.
RecommendErrorPatterns ==
    {EmptyDict}
    \cup {identify_error_patterns(ErrorWindow(S, u)) :
             S \in SUBSET (1..Len(RecommendMessages)), u \in 0..MaxUnclassified}

\* The response_time_clusters arguments: {}, no cluster, a cluster of mean
\* 1500 and a cluster of mean 1501.
RecommendClusters ==
    {EmptyDict}
    \cup {cluster_response_times(
             WindowOf(Repeat(200, Len(times)), times,
                      Repeat("/submit", Len(times)), Repeat("", Len(times)))) :
             times \in {<<1500>>, Repeat(1500, 5),
                        <<1500, 1500, 1500, 1500, 1505>>}}

\* The window analysed for sequence_patterns, periodic_failures or
\* dependency_correlations with the given status codes and endpoints.
StatusWindow(statuses, endpoints) ==
    WindowOf(statuses, Repeat(100, Len(statuses)), endpoints,
             Repeat("Internal Server Error", Len(statuses)))

\* The sequence_patterns arguments: {}, no pattern and one pattern.
RecommendSequences ==
    {EmptyDict}
    \cup {analyze_sequence_patterns(w, CHOOSE order \in sort_values(w) : TRUE) :
             w \in {StatusWindow(<<500>>, <<"/submit">>),
                    StatusWindow(<<200, 200, 500>>, Repeat("/submit", 3))}}

\* The periodic_failures arguments: {}, no problematic hour (one failing
\* call) and one problematic hour (two successful calls in an hour, a
\* failing call in the next hour).
RecommendPeriodic ==
    {EmptyDict,
     analyze_periodic_failures(StatusWindow(<<500>>, <<"/submit">>)),
     analyze_periodic_failures(
         [StatusWindow(<<200, 200, 500>>, Repeat("/submit", 3))
             EXCEPT ![3].timestamp = @ + 3600])}

\* The dependency_correlations arguments: {}, no likely dependency and
\* two endpoints failing together in three minutes.
RecommendDependencies ==
    {EmptyDict}
    \cup {analyze_dependency_correlation(w,
              CHOOSE order \in SetOrders(EndpointsOf(errors_of(w))) : TRUE) :
             w \in {StatusWindow(<<500>>, <<"/submit">>),
                    StatusWindow(Repeat(500, 9),
                        <<"/fetch", "/submit", "/update", "/fetch", "/submit",
                          "/update", "/fetch", "/submit", "/update">>)}}

\* The arguments of one call.
InitRecommend ==
    /\ log_file = <<>>
    /\ error_threshold = [num |-> 1, den |-> 5]
    /\ df = <<>>
    /\ pc = "idle"
    /\ report_file = <<>>
    /\ \E error_patterns_result \in RecommendErrorPatterns,
          response_time_clusters \in RecommendClusters,
          sequence_patterns \in RecommendSequences,
          periodic_failures \in RecommendPeriodic,
          dependency_correlations \in RecommendDependencies :
          result = [error_patterns |-> error_patterns_result,
                    response_time_clusters |-> response_time_clusters,
                    sequence_patterns |-> sequence_patterns,
                    periodic_failures |-> periodic_failures,
                    dependency_correlations |-> dependency_correlations]

\* _generate_recommendations(...) on the five arguments.
RunGenerateRecommendations ==
    /\ pc = "idle"
    /\ result' = [arguments |-> result,
                  recommended_actions |->
                      generate_recommendations(result.error_patterns,
                          result.response_time_clusters, result.sequence_patterns,
                          result.periodic_failures, result.dependency_correlations)]
    /\ pc' = "generate_recommendations"
    /\ UNCHANGED <<log_file, error_threshold, df, report_file>>

NextRecommend == RunGenerateRecommendations

SpecRecommend == InitRecommend /\ [][NextRecommend]_vars

RecommendDone == pc = "generate_recommendations"

\* The count of category c in an error_patterns argument.
CountOf(error_patterns_result, c) ==
    IF error_patterns_result = EmptyDict THEN 0
    ELSE IF "error_types" \notin DOMAIN error_patterns_result THEN 0
    ELSE IF c \notin DOMAIN error_patterns_result.error_types THEN 0
    ELSE error_patterns_result.error_types[c]

\* text when the rule applies.
Rule(applies, text) == IF applies THEN <<Chars(text)>> ELSE <<>>

\* C12: the list returned by _generate_recommendations is the triggered
\* recommendations in rule order followed by the two general ones: auth,
\* rate-limit, input-validation, retry and server-error iff the count of
\* auth_failure, rate_limit, invalid_input, timeout, server_error is > 0;
\* error-message detail iff the unclassified count is > 5; tracing and
\* query review iff some cluster has a mean above 1500 ms; call sequences
\* iff a sequence pattern exists; scheduled tasks iff a problematic hour
\* exists; health checks and fallbacks iff a likely dependency exists;
\* alerting and logging always last, also when every argument is {}.
C12_RecommendationRules ==
    RecommendDone =>
        LET a == result.arguments
            slow == /\ a.response_time_clusters # EmptyDict
                    /\ \E k \in 1..Len(a.response_time_clusters.clusters) :
                          FLess(FDiv(1500, 1),
                                a.response_time_clusters.clusters[k].avg_response_time)
            patterns == /\ a.sequence_patterns # EmptyDict
                        /\ Len(a.sequence_patterns.common_error_patterns) >= 1
            hours == /\ a.periodic_failures # EmptyDict
                     /\ Cardinality(DOMAIN a.periodic_failures.problematic_hours) >= 1
            likely == /\ a.dependency_correlations # EmptyDict
                      /\ Len(a.dependency_correlations.likely_dependencies) >= 1
            expected ==
                Rule(CountOf(a.error_patterns, "auth_failure") > 0,
                     "Review authentication mechanisms and token lifetimes to address authentication failures")
                \o Rule(CountOf(a.error_patterns, "rate_limit") > 0,
                     "Implement client-side rate limiting or request queuing to prevent rate limit errors")
                \o Rule(CountOf(a.error_patterns, "invalid_input") > 0,
                     "Enhance input validation on the client side before sending requests")
                \o Rule(CountOf(a.error_patterns, "timeout") > 0,
                     "Implement retry mechanisms with exponential backoff for requests that time out")
                \o Rule(CountOf(a.error_patterns, "server_error") > 0,
                     "Check server logs for exceptions and consider implementing circuit breakers for unstable services")
                \o Rule(CountOf(a.error_patterns, "unclassified") > 5,
                     "Implement more detailed error messages in API responses to better classify unidentified errors")
                \o Rule(slow, "Consider implementing performance tracing to identify bottlenecks in slow endpoints")
                \o Rule(slow, "Review database queries and external service calls in the slowest endpoints")
                \o Rule(patterns, "Analyze API call sequences to identify and fix dependency chains that lead to failures")
                \o Rule(hours, "Review scheduled tasks and maintenance windows to reduce impact during high-error time periods")
                \o Rule(likely, "Implement health checks and circuit breakers for critical dependencies")
                \o Rule(likely, "Consider implementing fallback mechanisms for frequently failing dependencies")
            n == Len(result.recommended_actions)
        IN /\ n >= 2
           /\ SubSeq(result.recommended_actions, 1, n - 2) = expected
           /\ result.recommended_actions[n - 1]
                 = Chars("Set up automated alerts based on the identified error patterns and thresholds")
           /\ result.recommended_actions[n]
                 = Chars("Implement comprehensive logging with contextual information for better root cause analysis")

\* Every rule has fired in one call: all twelve triggered recommendations
\* and the two general ones.
C12_Witness ==
    /\ RecommendDone
    /\ CountOf(result.arguments.error_patterns, "unclassified") = 6
    /\ Len(result.recommended_actions) = 14

\* Every argument is {}: the list is the two general recommendations.
C12_WitnessAllEmpty ==
    /\ RecommendDone
    /\ \A key \in DOMAIN result.arguments : result.arguments[key] = EmptyDict
    /\ Len(result.recommended_actions) = 2

----------------------------------------------------------------------------
(* DataFrames as objects: what a call leaves of the window it was given    *)
(*                                                                         *)
(* A store is the sequence of the DataFrame objects alive in a call; a     *)
(* reference is a position in it and the window df is object 1.            *)

\* name = frame: the name refers to the object itself.
alias(frames, ref) == [frames |-> frames, ref |-> ref]

\* frame.copy(): a new object with the rows of the frame.
copy(frames, ref) ==
    [frames |-> Append(frames, frames[ref]), ref |-> Len(frames) + 1]

\* frame[frame['status_code'] >= 400]: a new object with the failing rows.
getitem_errors(frames, ref) ==
    [frames |-> Append(frames, errors_of(frames[ref])), ref |-> Len(frames) + 1]

\* frame[column] = values: the object gets the column.
setitem(frames, ref, column, values) ==
    [frames EXCEPT ![ref] =
        [i \in 1..Len(frames[ref]) |-> (column :> values[i]) @@ frames[ref][i]]]

\* The store after identify_error_patterns(d): errors_df is a copy of the
\* failing rows and no column is assigned.
frames_identify_error_patterns(d) ==
    IF d = <<>> THEN <<d>>
    ELSE LET selected  == getitem_errors(<<d>>, 1)
             errors_df == copy(selected.frames, selected.ref)
         IN errors_df.frames

\* The store after cluster_response_times(d): df_copy gets the labels.
frames_cluster_response_times(d) ==
    IF d = <<>> THEN <<d>>
    ELSE LET df_copy == copy(<<d>>, 1)
         IN setitem(df_copy.frames, df_copy.ref, "cluster", fit(ResponseTimes(d)))

\* The store after analyze_sequence_patterns(d): sort_values returns a new
\* object, df_sorted.
frames_analyze_sequence_patterns(d, order) ==
    IF d = <<>> THEN <<d>>
    ELSE <<d, [i \in 1..Len(d) |-> d[order[i]]]>>

\* The store after analyze_periodic_failures(d): errors_df and all_df get
\* the hour of each row.
frames_analyze_periodic_failures(d) ==
    IF d = <<>> THEN <<d>>
    ELSE LET selected  == getitem_errors(<<d>>, 1)
             errors_df == copy(selected.frames, selected.ref)
         IN IF errors_df.frames[errors_df.ref] = <<>> THEN errors_df.frames
            ELSE LET hours(f) == [i \in 1..Len(f) |-> Hour(f[i].timestamp)]
                     with_hour == setitem(errors_df.frames, errors_df.ref, "hour",
                                      hours(errors_df.frames[errors_df.ref]))
                     all_df == copy(with_hour, 1)
                 IN setitem(all_df.frames, all_df.ref, "hour",
                            hours(all_df.frames[all_df.ref]))

\* The store after analyze_dependency_correlation(d): df_with_minute gets
\* the minute of each row.
frames_analyze_dependency_correlation(d) ==
    IF d = <<>> THEN <<d>>
    ELSE LET df_with_minute == copy(<<d>>, 1)
         IN setitem(df_with_minute.frames, df_with_minute.ref, "minute",
                [i \in 1..Len(d) |-> Minute(d[i].timestamp)])

----------------------------------------------------------------------------
(* SpecAnalyzers: a log of calls is loaded and the five analyzers are      *)
(* called on the window in any order; or generate_failure_report is called *)

MaxAnalyzerRecords == 6

\* The server logs the next call; the first call of the log was made
\* analysis_window_hours before the log is loaded and a call every
\* ReportCallSpacing seconds since.
AppendAnalyzers ==
    /\ Len(log_file) < MaxAnalyzerRecords
    /\ \E k \in DOMAIN ReportCalls :
          /\ k >= LastReportIndex
          /\ AppendLine(LogRecord(
                 cutoff_time + ReportCallSpacing * Len(log_file),
                 "10.0.0.1", ReportCalls[k].endpoint, ReportCalls[k].method,
                 ReportCalls[k].status_code, ReportCalls[k].response_time_ms,
                 ReportCalls[k].response_body))

\* df = self.load_logs()
RunLoadLogs ==
    /\ pc = "idle"
    /\ df' = load_logs(log_file)
    /\ result' = EmptyDict
    /\ pc' = "load_logs"
    /\ UNCHANGED <<log_file, error_threshold, report_file>>

\* The result of an analyzer on the window d.
AnalyzerResult(analyzer, d, sorted_order, set_order) ==
    CASE analyzer = "identify_error_patterns" -> identify_error_patterns(d)
      [] analyzer = "cluster_response_times" -> cluster_response_times(d)
      [] analyzer = "analyze_sequence_patterns" ->
            analyze_sequence_patterns(d, sorted_order)
      [] analyzer = "analyze_periodic_failures" -> analyze_periodic_failures(d)
      [] analyzer = "analyze_dependency_correlation" ->
            analyze_dependency_correlation(d, set_order)

\* The window d after the call of an analyzer on it.
WindowAfter(analyzer, d, sorted_order) ==
    (CASE analyzer = "identify_error_patterns" -> frames_identify_error_patterns(d)
       [] analyzer = "cluster_response_times" -> frames_cluster_response_times(d)
       [] analyzer = "analyze_sequence_patterns" ->
             frames_analyze_sequence_patterns(d, sorted_order)
       [] analyzer = "analyze_periodic_failures" -> frames_analyze_periodic_failures(d)
       [] analyzer = "analyze_dependency_correlation" ->
             frames_analyze_dependency_correlation(d))[1]

\* One analyzer that has not been called yet is called on the window.
RunAnalyzer ==
    /\ pc = "load_logs"
    /\ \E k \in DOMAIN Analyzers :
          /\ Analyzers[k] \notin DOMAIN result
          /\ \E sorted_order \in sort_values(df),
                set_order \in SetOrders(EndpointsOf(errors_of(df))) :
                /\ result' = [name \in DOMAIN result \cup {Analyzers[k]} |->
                                 IF name = Analyzers[k]
                                 THEN AnalyzerResult(name, df, sorted_order, set_order)
                                 ELSE result[name]]
                /\ df' = WindowAfter(Analyzers[k], df, sorted_order)
    /\ UNCHANGED <<log_file, error_threshold, pc, report_file>>

NextAnalyzers ==
    AppendAnalyzers \/ RunLoadLogs \/ RunAnalyzer \/ RunGenerateFailureReport

SpecAnalyzers == Init /\ [][NextAnalyzers]_vars

\* C13: on an empty window each of the five analyzers returns its empty
\* result, {}, and generate_failure_report returns a result of status
\* 'error' with a message, with no analyzer section and no saved report.
C13_EmptyWindowNotFatal ==
    /\ (pc = "load_logs" /\ load_logs(log_file) = <<>>) =>
          \A analyzer \in DOMAIN result : result[analyzer] = EmptyDict
    /\ (pc = "generate_failure_report" /\ load_logs(log_file) = <<>>) =>
          /\ DOMAIN result = {"status", "message"}
          /\ result.status = "error"
          /\ result.message = "No logs available for analysis"
          /\ report_file = <<>>

\* The log has one call, made at the cutoff: the window is empty and the
\* five analyzers have been called on it.
C13_Witness ==
    /\ pc = "load_logs"
    /\ Len(log_file) = 1
    /\ df = <<>>
    /\ DOMAIN result = Seq2Set(Analyzers)

----------------------------------------------------------------------------
(* SpecAppLog: the log as app.py writes it, generate_failure_report        *)

MaxAppLogRecords == 4

\* request_info of log_request_response: the record has the url of the
\* request and no endpoint.
AppRecord(ts, client, url, method, status, rt, body) ==
    [timestamp |-> ts, method |-> method, url |-> url, headers |-> <<>>,
     client_ip |-> client, request_body |-> "None", response_body |-> body,
     status_code |-> status, response_time_ms |-> rt]

\* The responses of /submit: a success and two failures with the messages
\* of their status codes.
AppResponses ==
    << [status_code |-> 200, response_body |-> OkBody],
       [status_code |-> 403,
        response_body |-> ErrorBody(Chars("Forbidden: Access denied"))],
       [status_code |-> 500,
        response_body |-> ErrorBody(Chars("Internal Server Error"))] >>

\* The server logs a call of /submit, ReportCallSpacing seconds after the
\* last.
AppendAppLog ==
    /\ Len(log_file) < MaxAppLogRecords
    /\ \E k \in DOMAIN AppResponses :
          AppendLine(AppRecord(
              cutoff_time + ReportCallSpacing * (Len(log_file) + 1),
              "127.0.0.1", "http://127.0.0.1:8000/submit", "POST",
              AppResponses[k].status_code, 100, AppResponses[k].response_body))

NextAppLog == AppendAppLog \/ RunGenerateFailureReport

SpecAppLog == Init /\ [][NextAppLog]_vars

\* C14: when an analyzer raises during generate_failure_report, a report
\* is still returned, with the sections of the analyzers that did not
\* raise, insights and recommended_actions.
C14_ReportDespiteAnalyzerFailure ==
    (/\ pc = "generate_failure_report"
     /\ df # <<>>
     /\ DOMAIN result # SummaryKeys
     /\ \E k \in DOMAIN Analyzers : Raises(Analyzers[k], df)) =>
        /\ "status" \in DOMAIN result
        /\ "insights" \in DOMAIN result
        /\ "recommended_actions" \in DOMAIN result
        /\ "periodic_failures" \in DOMAIN result

----------------------------------------------------------------------------
(* SpecLoad: an analyzer constructed with an error threshold, a log whose  *)
(* lines are in any order of time, old and recent, some of them not JSON   *)
(* or without a timestamp, generate_failure_report                         *)

MaxLoadRecords == 3

\* The error_threshold arguments of the constructor: 0.2, the default, and
\* -0.2.
LoadThresholds == {[num |-> 1, den |-> 5], [num |-> -1, den |-> 5]}

\* The analyzer as constructed with one of the thresholds: __init__ stores
\* its arguments as they are.
InitLoad ==
    /\ log_file = <<>>
    /\ error_threshold \in LoadThresholds
    /\ df = <<>>
    /\ pc = "idle"
    /\ result = EmptyDict
    /\ report_file = <<>>

\* The times of the calls of the log, in seconds after the cutoff: a minute
\* before it, at the cutoff, and one and two minutes after it.
LoadOffsets == {-60, 0, 60, 120}

LoadStatuses == {200, 500}

\* A call of /submit made offset seconds after the cutoff.
LoadRecord(offset, status) ==
    LogRecord(cutoff_time + offset, "10.0.0.1", "/submit", "POST", status, 100,
              IF status >= 400 THEN ErrorBody(Chars("Internal Server Error"))
              ELSE OkBody)

\* The record r without its timestamp.
WithoutTimestamp(r) == [field \in DOMAIN r \ {"timestamp"} |-> r[field]]

\* A line is added to the log for a call made at any of the times.
AppendLoad ==
    /\ Len(log_file) < MaxLoadRecords
    /\ \E offset \in LoadOffsets, status \in LoadStatuses :
          AppendLine(LoadRecord(offset, status))

\* A line that is not JSON is added to the log.
AppendBadLine ==
    /\ pc = "idle"
    /\ Len(log_file) < MaxLoadRecords
    /\ log_file' = Append(log_file, BadLine)
    /\ UNCHANGED <<error_threshold, df, pc, result, report_file>>

\* A line that is a JSON object without a timestamp is added to the log.
AppendWithoutTimestamp ==
    /\ Len(log_file) < MaxLoadRecords
    /\ AppendLine(WithoutTimestamp(LoadRecord(60, 500)))

NextLoad ==
    AppendLoad \/ AppendBadLine \/ AppendWithoutTimestamp
       \/ RunGenerateFailureReport

SpecLoad == InitLoad /\ [][NextLoad]_vars

LoadDone == pc = "generate_failure_report"

\* The lines of the log that are records with a timestamp.
IsTimed(line) == line.json /\ "timestamp" \in DOMAIN line.rec

\* The line is a record made at or before
\* (load time - analysis_window_hours).
IsStale(line) ==
    IsTimed(line) /\ line.rec.timestamp <= Now - analysis_window_hours * 3600

\* The log without its stale lines.
Fresh(lines) == SelectSeq(lines, LAMBDA line : ~IsStale(line))

\* C16: whatever the order of the lines of the log, the loaded window is
\* in non-decreasing order of timestamp, lines of equal timestamp in the
\* order of the log.
C16_WindowInTimestampOrder ==
    LoadDone =>
        \A i, j \in 1..Len(df) : i < j => df[i].timestamp <= df[j].timestamp

\* C17: every record of the loaded window has a timestamp strictly later
\* than (load time - analysis_window_hours); the report is the report on
\* the log without its stale lines, and its summary counts count the
\* lines later than the cutoff.
C17_WindowAfterCutoff ==
    LoadDone =>
        /\ \A i \in 1..Len(df) :
              df[i].timestamp > Now - analysis_window_hours * 3600
        /\ \A i \in 1..Len(log_file) :
              IsStale(log_file[i]) => \A k \in 1..Len(df) : df[k] # log_file[i].rec
        /\ \E window \in {load_logs(Fresh(log_file))} :
              \E sorted_order \in sort_values(window),
                 set_order \in SetOrders(EndpointsOf(errors_of(window))) :
                 result = generate_failure_report(window, FloatOf(error_threshold),
                                                  sorted_order, set_order)
        /\ "total_requests" \in DOMAIN result =>
              /\ result.total_requests
                    = Cardinality({i \in 1..Len(log_file) :
                                      IsTimed(log_file[i]) /\ ~IsStale(log_file[i])})
              /\ result.error_requests
                    = Cardinality({i \in 1..Len(log_file) :
                                      /\ IsTimed(log_file[i]) /\ ~IsStale(log_file[i])
                                      /\ log_file[i].rec.status_code >= 400})

\* The log has a failing call made at the cutoff, a failing call made a
\* minute before it and a successful call made a minute after it: the
\* window is the last one and the report counts no failure.
C17_Witness ==
    /\ LoadDone
    /\ Len(log_file) = 3
    /\ log_file[1] = JsonLine(LoadRecord(0, 500))
    /\ log_file[2] = JsonLine(LoadRecord(-60, 500))
    /\ df = <<LoadRecord(60, 200)>>
    /\ result.total_requests = 1
    /\ result.error_requests = 0

\* C18: a line that is not JSON, or a record without a required field, is
\* dropped, and the well-formed records of the log that lie in the
\* lookback window are all loaded.
C18_MalformedRecordsDropped ==
    LoadDone =>
        Len(df) = Cardinality({i \in 1..Len(log_file) :
                                  IsTimed(log_file[i]) /\ ~IsStale(log_file[i])})

\* C19: an analyzer constructed with a negative error threshold loads no
\* record and saves no report: the construction has failed.
C19_InvalidConfigurationRejected ==
    error_threshold.num < 0 => (df = <<>> /\ report_file = <<>>)

----------------------------------------------------------------------------
(* SpecErrorField: failing calls whose response body has no error field,   *)
(* or an error field that is a number, an object or a string,              *)
(* identify_error_patterns                                                 *)

MaxErrorFieldRecords == 3

\* The response bodies: {"detail": "Request timed out"}, {"error": 504},
\* {"error": {"detail": "Request timed out"}}, {"error": "Request timed
\* out"} and the JSON string "Request timed out".
ErrorFieldBodies ==
    << [type |-> "dict", dict |-> [detail |-> [type |-> "str", str |-> msg_timed_out]]],
       [type |-> "dict", dict |-> [error |-> [type |-> "int", int |-> 504]]],
       [type |-> "dict",
        dict |-> [error |-> [type |-> "object", key |-> Chars("detail"),
                             value |-> msg_timed_out]]],
       ErrorBody(msg_timed_out),
       [type |-> "str", str |-> msg_timed_out] >>

\* The server logs a failing call with one of the bodies.
AppendErrorField ==
    /\ Len(log_file) < MaxErrorFieldRecords
    /\ \E k \in DOMAIN ErrorFieldBodies :
          AppendLine(LogRecord(Now - 60, "10.0.0.1", "/submit", "POST", 504, 100,
                               ErrorFieldBodies[k]))

NextErrorField == AppendErrorField \/ RunIdentifyErrorPatterns

SpecErrorField == Init /\ [][NextErrorField]_vars

\* The response body of the record has no error field that is a string.
HasNoErrorString(r) ==
    \/ r.response_body.type # "dict"
    \/ "error" \notin DOMAIN r.response_body.dict
    \/ r.response_body.dict.error.type # "str"

\* C20: every failing record whose response body has no error field, or
\* an error field that is not a string, matches no keyword and is counted
\* as unclassified.
C20_NonStringErrorIsUnclassified ==
    pc = "identify_error_patterns" =>
        LET odd == {i \in 1..Len(df) : IsError(df[i]) /\ HasNoErrorString(df[i])}
        IN odd # {} =>
              /\ "unclassified" \in DOMAIN result.error_types
              /\ result.error_types["unclassified"] >= Cardinality(odd)
              /\ \A c \in DOMAIN result.pattern_details :
                    c # "unclassified" =>
                       Len(result.pattern_details[c])
                          <= Cardinality({i \in 1..Len(df) :
                                            IsError(df[i]) /\ ~HasNoErrorString(df[i])})

----------------------------------------------------------------------------
(* C21: the hourly table of a window without a failing record              *)

\* The keys of the dict analyze_periodic_failures returns at line 354.
PeriodicKeys == {"hourly_error_rates", "problematic_hours", "avg_error_rate"}

\* C21: for every non-empty window, a window with no failing record
\* included, analyze_periodic_failures returns the table with one entry for
\* each hour 0..23 (an hour without requests has request_count 0,
\* error_count 0 and error_rate 0), the overall average error rate and the
\* problematic subset.
C21_FullTableForNonEmptyWindow ==
    (pc = "analyze_periodic_failures" /\ df # <<>>) =>
        /\ DOMAIN result = PeriodicKeys
        /\ DOMAIN result.hourly_error_rates = 0..23
        /\ \A h \in 0..23 :
              hourly_count(df, h) = 0 =>
                  result.hourly_error_rates[h]
                     = [error_count |-> 0, request_count |-> 0, error_rate |-> FZero]
        /\ DOMAIN result.problematic_hours \subseteq 0..23

----------------------------------------------------------------------------
(* C22: the rows outside every cluster                                     *)

\* The rows labelled -1 by the clustering of a window.
NoiseRows(d) ==
    UNION {{i \in 1..Len(d) : labels[i] = -1} : labels \in {fit(ResponseTimes(d))}}

\* The sum of the sizes of the reported clusters.
RECURSIVE ReportedSize(_, _)
ReportedSize(r, k) ==
    IF k = 0 THEN 0 ELSE r.clusters[k].size + ReportedSize(r, k - 1)

\* C22: when clusters are reported, the rows that belong to no cluster are
\* in none of them and are counted: the output has, besides cluster_count and clusters, the
\* number of those rows, so that the sizes of the reported clusters and
\* that number add up to the number of rows clustered.
C22_NoiseIsCounted ==
    (ClusterDone /\ result.cluster_count > 0 /\ NoiseRows(df) # {}) =>
        /\ ReportedSize(result, result.cluster_count)
              = Len(df) - Cardinality(NoiseRows(df))
        /\ \E k \in DOMAIN result \ {"cluster_count", "clusters"} :
              ReportedSize(result, result.cluster_count) + result[k] = Len(df)

----------------------------------------------------------------------------
(* SpecFullReport: an analyzer constructed with error_threshold 0, which   *)
(* analyses every non-empty window in full, a log of calls written before  *)
(* the report is asked for, generate_failure_report                        *)

MaxLatencyRecords == 10

\* response_time_ms of the calls on /fetch and on /submit.
LatencyTimes ==
    {<<1000, 1000>>, <<1000, 1010>>, <<1010, 1000>>, <<1010, 1010>>, <<990, 1010>>}

\* n successful calls, one every ReportCallSpacing seconds: the first a on
\* /fetch taking t1 ms each, the others on /submit taking t2 ms each.
LatencyWindow(n, a, t1, t2) ==
    WindowOf(Repeat(200, n),
             [k \in 1..n |-> IF k <= a THEN t1 ELSE t2],
             [k \in 1..n |-> IF k <= a THEN "/fetch" ELSE "/submit"],
             Repeat("", n))

\* Windows of 9 to MaxLatencyRecords calls around 1000 ms, a window with a
\* fast group of 5 calls and a slow group of 10, and a window with two slow
\* groups of 10.
LatencyWindows ==
    {LatencyWindow(n, a, t[1], t[2]) :
        n \in 9..MaxLatencyRecords, a \in {0, 1, 5}, t \in LatencyTimes}
    \cup {LatencyWindow(15, 5, 100, 1010), LatencyWindow(20, 10, 1010, 2000)}

\* The numbers of successive failing calls on one endpoint.
FailingRuns == {0, 4, 5, 6}

\* s failing calls on /submit, then u on /update, then f on /fetch, all of
\* one client, one every ReportCallSpacing seconds.
SequenceWindow(s, u, f) ==
    StatusWindow(Repeat(500, s + u + f),
                 Repeat("/submit", s) \o Repeat("/update", u) \o Repeat("/fetch", f))

\* The windows of failing calls: every failing call from the client's
\* third on ends a sequence.
SequenceWindows ==
    {SequenceWindow(s, u, f) :
        s \in FailingRuns \ {6}, u \in FailingRuns, f \in FailingRuns \ {4}}
    \ {<<>>}

\* s failing calls on /submit of the first client, then t failing calls on
\* /submit and f on /fetch of the second client.
TwoClientWindow(s, t, f) ==
    LET calls == SequenceWindow(s + t, 0, f)
    IN [k \in 1..Len(calls) |->
           IF k <= s THEN calls[k]
           ELSE [calls[k] EXCEPT !.client_ip = ClientIps[2]]]

\* The windows of failing calls of two clients.
TwoClientWindows ==
    {TwoClientWindow(s, t, f) : s \in {2, 3, 4}, t \in {0, 3}, f \in {0, 5}}

\* Four successful calls and a failing calls in hour 0 of the day, s2
\* successful and b2 failing calls in hour 2, b10 failing calls in hour 10
\* and b23 in hour 23, in chronological order.
PeriodicWindow(a, s2, b2, b10, b23) ==
    LET hours == Repeat(0, 4 + a) \o Repeat(2, s2 + b2) \o Repeat(10, b10)
                    \o Repeat(23, b23)
        statuses == Repeat(200, 4) \o Repeat(500, a) \o Repeat(200, s2)
                       \o Repeat(500, b2 + b10 + b23)
        calls == StatusWindow(statuses, Repeat("/submit", Len(statuses)))
    IN [k \in 1..Len(calls) |->
           [calls[k] EXCEPT !.timestamp =
               cutoff_time + 3600 * hours[k] + ReportCallSpacing * k]]

\* The windows with no, one, two and three hours of elevated error rate.
PeriodicWindows ==
    {PeriodicWindow(a, s2, b2, b10, b23) :
        a \in 0..1, s2 \in 0..1, b2 \in 0..2, b10 \in 0..1, b23 \in 0..1}

\* The numbers of minutes in which two endpoints fail together.
CoFailureMinutes == {0, 2, 3, 4}

\* Two failing calls in each minute: on /fetch and /submit in the first ab
\* minutes, on /fetch and /update in the next ac minutes.
DependencyWindow(ab, ac) ==
    LET endpoints == [k \in 1..(2 * (ab + ac)) |->
                        IF k % 2 = 1 THEN "/fetch"
                        ELSE IF k <= 2 * ab THEN "/submit" ELSE "/update"]
        calls == StatusWindow(Repeat(500, Len(endpoints)), endpoints)
    IN [k \in 1..Len(calls) |->
           [calls[k] EXCEPT !.timestamp =
               cutoff_time + 60 * ((k + 1) \div 2) + ReportCallSpacing * ((k - 1) % 2)]]

\* The windows with no, one and two pairs of endpoints that fail together
\* in three minutes or more.
DependencyWindows ==
    {DependencyWindow(ab, ac) : ab \in CoFailureMinutes, ac \in CoFailureMinutes}
    \ {<<>>}

\* The windows of the logs of SpecFullReport.
FullReportWindows ==
    LatencyWindows \cup SequenceWindows \cup TwoClientWindows \cup PeriodicWindows
       \cup DependencyWindows

\* The analyzer as constructed with error_threshold 0 on a log file that
\* holds the calls of one of the windows.
InitFullReport ==
    /\ \E w \in FullReportWindows : log_file = [k \in 1..Len(w) |-> JsonLine(w[k])]
    /\ error_threshold = [num |-> 0, den |-> 1]
    /\ df = <<>>
    /\ pc = "idle"
    /\ result = EmptyDict
    /\ report_file = <<>>

NextFullReport == RunGenerateFailureReport

SpecFullReport == InitFullReport /\ [][NextFullReport]_vars

\* A full report has been returned.
FullReportDone == pc = "generate_failure_report" /\ "insights" \in DOMAIN result

\* The text begins with the prefix.
StartsWith(text, prefix) ==
    /\ Len(text) >= Len(prefix)
    /\ SubSeq(text, 1, Len(prefix)) = Chars(prefix)

\* The insights that begin with one of the prefixes, in their order.
InsightsWith(prefixes) ==
    SelectSeq(result.insights, LAMBDA text : \E p \in prefixes : StartsWith(text, p))

\* sum / n with one decimal, from the nearest tenth (the even one of two
\* equally near).
MeanText(sum, n) ==
    LET q == (10 * sum) \div n
        r == (10 * sum) % n
        tenths == IF 2 * r > n \/ (2 * r = n /\ q % 2 = 1) THEN q + 1 ELSE q
    IN IntToStr(tenths \div 10) \o <<".">> \o IntToStr(tenths % 10)

\* The insight on a group of rows M of the window.
SlowGroupInsight(M) ==
    Chars("Identified a group of ") \o IntToStr(Cardinality(M))
       \o Chars(" requests with consistently high response times (avg: ")
       \o MeanText(SumOf(ResponseTimes(df), M), Cardinality(M)) \o Chars("ms)")

\* The rows of M of one endpoint and method.
CallsOf(M, endpoint, method) ==
    {i \in M : df[i].endpoint = endpoint /\ df[i].method = method}

\* The insight naming the rows G of M, all of one endpoint and method, as
\* the slowest of M.
SlowestInsight(G) ==
    LET i == CHOOSE j \in G : TRUE
    IN Chars("The slowest endpoint in this group is ")
          \o Chars(df[i].method) \o <<" ">> \o Chars(df[i].endpoint)
          \o Chars(" with average response time of ")
          \o MeanText(SumOf(ResponseTimes(df), G), Cardinality(G)) \o Chars("ms")

\* The mean response time of G is the highest among the (endpoint, method)
\* groups of M.
HasHighestMean(G, M) ==
    \A i \in M :
       LET H == CallsOf(M, df[i].endpoint, df[i].method)
       IN SumOf(ResponseTimes(df), H) * Cardinality(G)
             <= SumOf(ResponseTimes(df), G) * Cardinality(H)

\* The clusters of the window, each as the set of its rows.
ClusterMembers ==
    UNION {{{i \in 1..Len(df) : labels[i] = l} :
               l \in {labels[i] : i \in 1..Len(df)} \ {-1}} :
           labels \in {fit(ResponseTimes(df))}}

\* The cluster has at least 10 rows and a mean response time above 1000 ms.
LargeAndSlow(M) ==
    /\ Cardinality(M) >= 10
    /\ SumOf(ResponseTimes(df), M) > 1000 * Cardinality(M)

SequenceKey(seq) ==
    seq.preceding_calls[1] \o " -> " \o seq.preceding_calls[2] \o " -> "
       \o seq.error_endpoint

\* The number of emitted sequences of the report with the key.
FrequencyOf(key) ==
    Cardinality({i \in 1..Len(result.sequence_patterns.error_sequences) :
                    SequenceKey(result.sequence_patterns.error_sequences[i]) = key})

\* The keys of the emitted sequences of the report.
SequenceKeys ==
    {SequenceKey(result.sequence_patterns.error_sequences[i]) :
        i \in 1..Len(result.sequence_patterns.error_sequences)}

\* The insight quoting a pattern and its frequency.
PatternInsight(key) ==
    Chars("Detected a common error pattern (") \o IntToStr(FrequencyOf(key))
       \o Chars(" occurrences): ") \o Chars(key)

\* C24: a full report has at most two sequence insights; each quotes a
\* pattern whose frequency is at least 3, with that frequency, no two quote
\* the same pattern, and no pattern without an insight has a strictly
\* higher frequency than a pattern with one; when no pattern reaches
\* frequency 3 there is no sequence insight.
C24_SequenceInsights ==
    (FullReportDone /\ "error_sequences" \in DOMAIN result.sequence_patterns) =>
        LET quoted == InsightsWith({"Detected a common error pattern ("})
            with == {key \in SequenceKeys :
                        \E k \in 1..Len(quoted) : quoted[k] = PatternInsight(key)}
        IN /\ Len(quoted) <= 2
           /\ \A k \in 1..Len(quoted) :
                 \E key \in SequenceKeys :
                    /\ FrequencyOf(key) >= 3
                    /\ quoted[k] = PatternInsight(key)
           /\ Cardinality(with) = Len(quoted)
           /\ \A key \in SequenceKeys \ with, other \in with :
                 FrequencyOf(key) <= FrequencyOf(other)
           /\ (\A key \in SequenceKeys : FrequencyOf(key) < 3) => quoted = <<>>

\* Five failing calls on /submit, six on /update and five on /fetch: of the
\* three patterns of frequency 3 or more the first two in descending order
\* of frequency are quoted, the one on /update (4) before the one on
\* /submit (3), and the patterns of frequency 1 are not.
C24_Witness ==
    /\ FullReportDone
    /\ Len(df) = 16
    /\ Cardinality({key \in SequenceKeys : FrequencyOf(key) >= 3}) = 3
    /\ InsightsWith({"Detected a common error pattern ("})
          = << Chars("Detected a common error pattern (4 occurrences): POST /update -> POST /update -> POST /update"),
               Chars("Detected a common error pattern (3 occurrences): POST /submit -> POST /submit -> POST /submit") >>

\* The problematic hours of the report.
ProblematicHours ==
    IF "problematic_hours" \in DOMAIN result.periodic_failures
    THEN DOMAIN result.periodic_failures.problematic_hours
    ELSE {}

\* The rows of the window in hour h of the day.
RowsInHour(h) == {i \in 1..Len(df) : (df[i].timestamp \div 3600) % 24 = h}

\* The insight naming the hour h and its error rate in percent.
HourInsight(h) ==
    Chars("Hour ") \o IntToStr(h) \o Chars(":00 shows elevated error rates (")
       \o MeanText(100 * Cardinality({i \in RowsInHour(h) : df[i].status_code >= 400}),
                   Cardinality(RowsInHour(h)))
       \o Chars("%), which may indicate scheduled jobs or maintenance windows")

RECURSIVE HourList(_)
\* The hours of S as "h:00", in ascending order, separated by ", ".
HourList(S) ==
    IF S = {} THEN <<>>
    ELSE LET h == CHOOSE x \in S : \A y \in S : x <= y
         IN IntToStr(h) \o Chars(":00")
               \o (IF S = {h} THEN <<>> ELSE Chars(", ") \o HourList(S \ {h}))

\* C25: a full report has at most one periodicity insight: with exactly
\* one problematic hour the insight names that hour and its error rate,
\* with two or more a single insight lists all of them in ascending hour
\* order, and with none there is no periodicity insight.
C25_PeriodicityInsights ==
    FullReportDone =>
        LET periodic == InsightsWith({"Hour ", "Multiple hours show elevated error rates: "})
        IN /\ Len(periodic) <= 1
           /\ ProblematicHours = {} => periodic = <<>>
           /\ \A h \in ProblematicHours :
                 ProblematicHours = {h} => periodic = <<HourInsight(h)>>
           /\ Cardinality(ProblematicHours) >= 2 =>
                 periodic = << Chars("Multiple hours show elevated error rates: ")
                                  \o HourList(ProblematicHours) >>

\* Failing calls in hours 2, 10 and 23 after four successful calls in hour
\* 0: the three hours are listed in ascending order in one insight.
C25_Witness ==
    /\ FullReportDone
    /\ ProblematicHours = {2, 10, 23}
    /\ InsightsWith({"Hour ", "Multiple hours show elevated error rates: "})
          = << Chars("Multiple hours show elevated error rates: 2:00, 10:00, 23:00") >>

\* Two of the three calls of hour 2 fail: the insight names the hour and
\* 66.7%.
C25_WitnessSingleHour ==
    /\ FullReportDone
    /\ ProblematicHours = {2}
    /\ InsightsWith({"Hour ", "Multiple hours show elevated error rates: "})
          = << Chars("Hour 2:00 shows elevated error rates (66.7%), which may indicate scheduled jobs or maintenance windows") >>

\* The LikelyDependency entries of the report.
LikelyDependencyEntries ==
    IF "likely_dependencies" \in DOMAIN result.dependency_correlations
    THEN result.dependency_correlations.likely_dependencies
    ELSE <<>>

\* The insight naming the source, the dependent and the count of an entry.
DependencyInsight(dep) ==
    Chars("Detected potential dependency: failures on ")
       \o Chars(dep.source_endpoint) \o Chars(" correlate with failures on ")
       \o Chars(dep.dependent_endpoint) \o Chars(" (")
       \o IntToStr(dep.co_failure_count) \o Chars(" co-occurrences)")

\* C26: a full report has exactly one dependency insight when there is at
\* least one LikelyDependency and none otherwise; the insight names the
\* source, the dependent and the count of an entry whose co_failure_count
\* is the maximum over all LikelyDependency entries.
C26_DependencyInsight ==
    FullReportDone =>
        LET dependency == InsightsWith({"Detected potential dependency: "})
            likely == LikelyDependencyEntries
        IN /\ likely = <<>> => dependency = <<>>
           /\ likely # <<>> =>
                 /\ Len(dependency) = 1
                 /\ \E k \in 1..Len(likely) :
                       /\ \A j \in 1..Len(likely) :
                             likely[j].co_failure_count <= likely[k].co_failure_count
                       /\ dependency[1] = DependencyInsight(likely[k])

\* /fetch fails together with /submit in three minutes and with /update in
\* four: of the four entries the insight names one of count 4, which is
\* not the first of the list.
C26_Witness ==
    /\ FullReportDone
    /\ Len(LikelyDependencyEntries) = 4
    /\ LikelyDependencyEntries[1].co_failure_count = 3
    /\ \E k \in 2..4 :
          /\ LikelyDependencyEntries[k].co_failure_count = 4
          /\ InsightsWith({"Detected potential dependency: "})
                = <<DependencyInsight(LikelyDependencyEntries[k])>>

\* The frequencies of the patterns from position k on, added up.
RECURSIVE FrequencySum(_, _)
FrequencySum(common_error_patterns, k) ==
    IF k > Len(common_error_patterns) THEN 0
    ELSE common_error_patterns[k].count + FrequencySum(common_error_patterns, k + 1)

\* C27: in common_error_patterns of a report every pattern's frequency is
\* greater than or equal to that of every pattern after it; the patterns
\* are the keys of the emitted sequences of all clients (the two preceding
\* calls and the failing call joined by ' -> '), each once, each with the
\* number of emitted sequences of that key as its frequency; and the
\* frequencies add up to the length of the flat error_sequences list.
C27_PatternsByDescendingFrequency ==
    (FullReportDone /\ "common_error_patterns" \in DOMAIN result.sequence_patterns) =>
        LET patterns == result.sequence_patterns.common_error_patterns
        IN /\ \A i, j \in 1..Len(patterns) :
                 i < j => /\ patterns[i].count >= patterns[j].count
                          /\ patterns[i].pattern # patterns[j].pattern
           /\ {patterns[k].pattern : k \in 1..Len(patterns)} = SequenceKeys
           /\ \A k \in 1..Len(patterns) :
                 patterns[k].count = FrequencyOf(patterns[k].pattern)
           /\ FrequencySum(patterns, 1) = Len(result.sequence_patterns.error_sequences)

\* Each of two clients makes three failing calls on /submit and the second
\* five more on /fetch: the pattern on /submit counts one sequence of each
\* client and comes after the pattern on /fetch, counted later but three
\* times.
C27_Witness ==
    /\ FullReportDone
    /\ Len(df) = 11
    /\ \A k \in 1..3 : df[k].client_ip = ClientIps[1] /\ df[k + 3].client_ip = ClientIps[2]
    /\ result.sequence_patterns.client_count = 2
    /\ Len(result.sequence_patterns.error_sequences) = 7
    /\ result.sequence_patterns.common_error_patterns
          = << [pattern |-> "POST /fetch -> POST /fetch -> POST /fetch", count |-> 3],
               [pattern |-> "POST /submit -> POST /submit -> POST /submit", count |-> 2],
               [pattern |-> "POST /submit -> POST /submit -> POST /fetch", count |-> 1],
               [pattern |-> "POST /submit -> POST /fetch -> POST /fetch", count |-> 1] >>

----------------------------------------------------------------------------
(* KibanaRootCauseIntegration: the category and severity tags of the       *)
(* insights and the category and priority tags of the recommendations      *)

\* The categories dict of _index_insights with "performance" before
\* "error".
insight_categories_performance_first ==
    << [tag |-> "performance", keywords |-> <<"slow", "response time", "latency", "timeout">>],
       [tag |-> "error", keywords |-> <<"error", "fail", "exception", "invalid">>],
       [tag |-> "traffic", keywords |-> <<"traffic", "volume", "request", "spike">>],
       [tag |-> "pattern", keywords |-> <<"pattern", "correlation", "sequence", "dependency">>] >>

\* categories of _index_insights, in the order of the dict literal.
insight_categories ==
    << [tag |-> "error", keywords |-> <<"error", "fail", "exception", "invalid">>],
       [tag |-> "performance", keywords |-> <<"slow", "response time", "latency", "timeout">>],
       [tag |-> "traffic", keywords |-> <<"traffic", "volume", "request", "spike">>],
       [tag |-> "pattern", keywords |-> <<"pattern", "correlation", "sequence", "dependency">>] >>

\* severity_keywords of _index_insights.
severity_keywords ==
    << [tag |-> "high", keywords |-> <<"critical", "severe", "significant", "high">>],
       [tag |-> "medium", keywords |-> <<"elevated", "moderate", "increased">>],
       [tag |-> "low", keywords |-> <<"minor", "slight", "small">>] >>

\* categories of _index_recommendations.
recommendation_categories ==
    << [tag |-> "authentication", keywords |-> <<"auth", "token", "credential", "login">>],
       [tag |-> "validation", keywords |-> <<"validate", "input", "parameter", "format">>],
       [tag |-> "performance",
        keywords |-> <<"performance", "response time", "latency", "timeout", "bottleneck">>],
       [tag |-> "monitoring", keywords |-> <<"monitor", "alert", "logging", "trace">>],
       [tag |-> "architecture", keywords |-> <<"circuit breaker", "fallback", "retry", "queue">>] >>

\* priority_keywords of _index_recommendations.
priority_keywords ==
    << [tag |-> "high", keywords |-> <<"implement", "fix", "critical", "immediately">>],
       [tag |-> "medium", keywords |-> <<"consider", "review", "improve">>],
       [tag |-> "low", keywords |-> <<"may", "might", "could", "optional">>] >>

\* any(keyword in text.lower() for keyword in keywords)
any_keyword(keywords, text) ==
    \E k \in 1..Len(keywords) : IsSubstring(Chars(keywords[k]), Lower(text))

RECURSIVE first_tag(_, _, _, _)
\* The loop over the items of a keyword dict from item i on, with its
\* break; tag is the value assigned before the loop.
first_tag(table, i, text, tag) ==
    IF i > Len(table) THEN tag
    ELSE IF any_keyword(table[i].keywords, text) THEN table[i].tag
    ELSE first_tag(table, i + 1, text, tag)

\* The documents _index_insights sends to the insights index.
index_insights(insights) ==
    [k \in 1..Len(insights) |->
        [insight |-> insights[k],
         category |-> first_tag(insight_categories, 1, insights[k], "general"),
         severity |-> first_tag(severity_keywords, 1, insights[k], "medium")]]

\* The documents _index_recommendations sends to the recommendations index.
index_recommendations(recommendations) ==
    [k \in 1..Len(recommendations) |->
        [recommendation |-> recommendations[k],
         category |-> first_tag(recommendation_categories, 1, recommendations[k], "general"),
         priority |-> first_tag(priority_keywords, 1, recommendations[k], "medium")]]

\* index_root_cause_data(report): the documents of the insights and of the
\* recommendations index.
index_root_cause_data(report) ==
    [insights_index |->
        IF "insights" \in DOMAIN report THEN index_insights(report.insights) ELSE <<>>,
     recommendations_index |->
        IF "recommended_actions" \in DOMAIN report
        THEN index_recommendations(report.recommended_actions)
        ELSE <<>>]

----------------------------------------------------------------------------
(* SpecIndex: a saved report with up to MaxIndexedInsights insights and    *)
(* up to one recommendation, index_root_cause_report                       *)

MaxIndexedInsights == 2

\* Insights of reports, and a text of each other category and severity.
InsightTexts ==
    << "Timeout errors account for 50.0% of all failures",
       "Identified a group of 10 requests with consistently high response times (avg: 1009.0ms)",
       "Request volume shows a minor spike",
       "A sequence of calls is repeated",
       "Nothing to report" >>

\* Recommendations of reports, and a text of low priority.
RecommendationTexts ==
    << "Review authentication mechanisms and token lifetimes to address authentication failures",
       "Implement retry mechanisms with exponential backoff for requests that time out",
       "Consider implementing performance tracing to identify bottlenecks in slow endpoints",
       "Implement comprehensive logging with contextual information for better root cause analysis",
       "Analyze API call sequences to identify and fix dependency chains that lead to failures",
       "Logging could be optional" >>

\* The lists of at most n texts of a sequence of texts.
ListsOf(texts, n) ==
    UNION {[1..len -> {Chars(texts[k]) : k \in 1..Len(texts)}] : len \in 0..n}

\* A report has been saved to the report file.
InitIndex ==
    /\ log_file = <<>>
    /\ error_threshold = [num |-> 1, den |-> 5]
    /\ df = <<>>
    /\ pc = "idle"
    /\ result = EmptyDict
    /\ \E insights \in ListsOf(InsightTexts, MaxIndexedInsights),
          recommended_actions \in ListsOf(RecommendationTexts, 1) :
          report_file = << [status |-> "success", insights |-> insights,
                            recommended_actions |-> recommended_actions] >>

\* index_root_cause_report(report_path): the report is loaded from the file
\* and its insights and recommendations are indexed.
RunIndexRootCauseReport ==
    /\ pc = "idle"
    /\ result' = index_root_cause_data(report_file[Len(report_file)])
    /\ pc' = "index_root_cause_data"
    /\ UNCHANGED <<log_file, error_threshold, df, report_file>>

NextIndex == RunIndexRootCauseReport

SpecIndex == InitIndex /\ [][NextIndex]_vars

IndexDone == pc = "index_root_cause_data"

\* The tags of the insights and of the recommendations in their fixed
\* order.
InsightCategoryOrder == <<"error", "performance", "traffic", "pattern">>
RecommendationCategoryOrder ==
    <<"authentication", "validation", "performance", "monitoring", "architecture">>
LevelOrder == <<"high", "medium", "low">>

\* The tag at position i of the order has a keyword of the table that
\* occurs in the lowercased text low.
TagApplies(table, order, i, low) ==
    \E e \in 1..Len(table) :
       /\ table[e].tag = order[i]
       /\ \E k \in 1..Len(table[e].keywords) :
             \E at \in 0..(Len(low) - Len(table[e].keywords[k])) :
                SubSeq(low, at + 1, at + Len(table[e].keywords[k]))
                   = Chars(table[e].keywords[k])

\* The one tag of a text: the first of the order that applies, or the
\* default tag when none does.
IsTagOf(tag, table, order, text, default) ==
    \E low \in {Lower(text)} :
       \E applying \in {{i \in 1..Len(order) : TagApplies(table, order, i, low)}} :
          \/ applying = {} /\ tag = default
          \/ \E i \in applying :
                /\ \A j \in applying : i <= j
                /\ tag = order[i]

\* C28: every insight and every recommendation of the report is indexed
\* once, in order, with one category tag and one severity or priority tag:
\* for an insight the first of error, performance, traffic, pattern that
\* has a keyword in the lowercased text (else general) and the first of
\* high, medium, low that has one (else medium); for a recommendation the
\* first of authentication, validation, performance, monitoring,
\* architecture (else general) and the first of high, medium, low (else
\* medium). The tags of a text are those of the text alone, whatever the
\* other texts of the list.
C28_FirstMatchTags ==
    IndexDone =>
        LET report == report_file[Len(report_file)]
        IN /\ Len(result.insights_index) = Len(report.insights)
           /\ Len(result.recommendations_index) = Len(report.recommended_actions)
           /\ \A k \in 1..Len(report.insights) :
                 LET doc == result.insights_index[k]
                 IN /\ doc.insight = report.insights[k]
                    /\ IsTagOf(doc.category, insight_categories, InsightCategoryOrder,
                               report.insights[k], "general")
                    /\ IsTagOf(doc.severity, severity_keywords, LevelOrder,
                               report.insights[k], "medium")
                    /\ doc = index_insights(<<report.insights[k]>>)[1]
           /\ \A k \in 1..Len(report.recommended_actions) :
                 LET doc == result.recommendations_index[k]
                 IN /\ doc.recommendation = report.recommended_actions[k]
                    /\ IsTagOf(doc.category, recommendation_categories,
                               RecommendationCategoryOrder,
                               report.recommended_actions[k], "general")
                    /\ IsTagOf(doc.priority, priority_keywords, LevelOrder,
                               report.recommended_actions[k], "medium")
                    /\ doc = index_recommendations(<<report.recommended_actions[k]>>)[1]

\* An insight with keywords of the categories error and performance and of
\* no severity is tagged error and medium; next to it an insight with a
\* keyword of performance and of high; the recommendation with keywords of
\* the priorities high and medium is tagged high.
C28_Witness ==
    /\ IndexDone
    /\ Len(result.insights_index) = 2
    /\ result.insights_index[1]
          = [insight |-> Chars("Timeout errors account for 50.0% of all failures"),
             category |-> "error", severity |-> "medium"]
    /\ result.insights_index[2].category = "performance"
    /\ result.insights_index[2].severity = "high"
    /\ result.recommendations_index
          = << [recommendation |->
                   Chars("Consider implementing performance tracing to identify bottlenecks in slow endpoints"),
                category |-> "performance", priority |-> "high"] >>

----------------------------------------------------------------------------
(* C29: the error accounting of a full report                              *)

\* A field of the error_patterns section, {} when the section has no such
\* field.
ErrorPatternsField(field) ==
    IF field \in DOMAIN result.error_patterns THEN result.error_patterns[field]
    ELSE EmptyDict

RECURSIVE CountSum(_, _)
\* The counts of the categories of S, added up.
CountSum(error_types, S) ==
    IF S = {} THEN 0
    ELSE LET c == CHOOSE x \in S : TRUE
         IN error_types[c] + CountSum(error_types, S \ {c})

\* The detail entry is that of the row.
IsDetailOf(detail, row) ==
    /\ detail.timestamp = row.timestamp
    /\ detail.endpoint = row.endpoint
    /\ detail.method = row.method
    /\ detail.status_code = row.status_code

\* <<category, position>> of the detail entries of the row.
DetailsOf(row) ==
    {e \in UNION {{c} \X (1..Len(ErrorPatternsField("pattern_details")[c])) :
                     c \in DOMAIN ErrorPatternsField("pattern_details")} :
        IsDetailOf(ErrorPatternsField("pattern_details")[e[1]][e[2]], row)}

\* C29: in every full report each record with status_code >= 400 is in the
\* detail list of exactly one category (records that agree in timestamp,
\* endpoint, method and status code: as many entries as records, all in
\* one category's list or split as the records are), the counts of the
\* categories add up to error_patterns.error_count, that count is the
\* summary's error_requests, error_requests <= total_requests, and the
\* avg_error_rate of periodic_failures is the summary's error_rate.
C29_ErrorAccountingConsistent ==
    FullReportDone =>
        LET failing == {i \in 1..Len(df) : df[i].status_code >= 400}
            error_types == ErrorPatternsField("error_types")
        IN /\ \A i \in failing :
                 Cardinality(DetailsOf(df[i]))
                    = Cardinality({j \in failing : IsDetailOf(df[j], df[i])})
           /\ \A i \in failing :
                 Cardinality({e[1] : e \in DetailsOf(df[i])})
                    <= Cardinality({matched_pattern(error_message_of(df[j])) :
                                       j \in {k \in failing : IsDetailOf(df[k], df[i])}})
           /\ CountSum(error_types, DOMAIN error_types) = result.error_patterns.error_count
           /\ result.error_patterns.error_count = result.error_requests
           /\ result.error_requests = Cardinality(failing)
           /\ result.error_requests <= result.total_requests
           /\ "avg_error_rate" \in DOMAIN result.periodic_failures
           /\ result.periodic_failures.avg_error_rate = result.error_rate

----------------------------------------------------------------------------
(* C30: the problematic hours among the hours with requests                *)

\* The hours the analyzer reports as problematic.
ReportedProblematic ==
    IF "problematic_hours" \in DOMAIN result THEN DOMAIN result.problematic_hours
    ELSE {}

\* The hours of the day in which the window has a record.
HoursWithRequests == {(df[i].timestamp \div 3600) % 24 : i \in 1..Len(df)}

============================================================================
